---- MODULE Spec2Model ----
(***************************************************************************)
(* A model of the cc11 preprocessor core (src/include/prepro):             *)
(*   - LRUCache            (lru_cache.hpp)                                  *)
(*   - ConditionalManager  (conditional_manager.hpp)                        *)
(*   - directive handlers  (command.hpp), skip_lines (include_manager.hpp) *)
(*   - ObjectMacro / FunctionMacro expansion (macro_manager.hpp)            *)
(* Each subsystem has its own specification over the shared variables; a     *)
(* specification leaves the other subsystems' variables at rest.             *)
(***************************************************************************)
EXTENDS Integers, Sequences, FiniteSets, TLC

(***************************************************************************)
(* Bounds of the model.                                                    *)
(***************************************************************************)
MaxCapacity == 2
NumThreads == 2
MaxLines == 4
MaxDepth == 3
MaxBody == 4
MaxCount == 3
MaxChain == 5
MaxDefines == 3
MaxDirectives == 3
MaxIterations == 2
MaxTokens == 3

Keys == 1..(MaxCapacity + 1)
Vals == {1, 2}
Threads == 1..NumThreads

VARIABLES
    \* ---- LRUCache<Key, Value> ----
    max_size_,      \* const std::uint64_t max_size_
    cache_list_,    \* std::list<pair<Key,Value>>: sequence of nodes, head first
    cache_map_,     \* std::unordered_map<Key, list::iterator>: key -> node id
    mutex_,         \* std::mutex: 0 when free, else the owning thread
    pc,             \* per thread: where it is inside a cache call
    cur,            \* per thread: the call it is executing
    it,             \* per thread: the iterator returned by cache_map_.find
    ret,            \* per thread: the value the call returns
    \* ---- history of the cache (not program state) ----
    touched,        \* the keys held, ordered by their most recent touch, oldest first
    lastPut,        \* key -> value of the latest put of it (0: none since it was removed)
    evicted,        \* key removed by the put in progress (0: none)
    \* ---- a thread running the put-then-get loop of the concurrency test ----
    job,            \* per thread: the key and value of its iteration and the call it is at
    fresh,          \* history, per thread: its put of the job's key was applied and no
                    \* other thread's put of that key since
    construction    \* how the constructor call ended: whether there is a cache, the
                    \* exception thrown if any, the max_size given

lruVars == <<max_size_, cache_list_, cache_map_, mutex_, pc, cur, it, ret,
             touched, lastPut, evicted, job, fresh, construction>>

VARIABLES
    \* ---- the preprocessing pass ----
    tokens,         \* the token stream (Token::next is the next index, 0 is nullptr)
    cursor,         \* the token the drive loop handles next
    stack,          \* ConditionalManager::stack
    macros,         \* MacroManager::macros : name -> macro
    err,            \* the exception that unwound the last call, if any
    \* ---- history of the pass (not program state) ----
    last,           \* the handler that ran last and its directive token
    pushes,         \* calls of push so far
    pops,           \* calls of pop that returned normally so far
    entered         \* the directives (name token) whose branch the pass went into

condVars == <<tokens, cursor, stack, macros, err, last, pushes, pops, entered>>

VARIABLES
    \* ---- one call of Macro::expand ----
    call_token,     \* the call-site token handed to expand (expand may write to it)
    args,           \* the MarcoArgList handed to expand
    expanded,       \* the vector expand returned (empty when it threw)
    thrown,         \* the exception that left expand, if any
    \* ---- history of the call (not program state) ----
    callIn,         \* the call-site token as it was when expand was entered
    expandedBy      \* name of the macro whose expand ran last ("" before any call)

expVars == <<call_token, args, expanded, thrown, callIn, expandedBy>>

VARIABLES
    \* ---- MacroManager used through its own methods ----
    counter,        \* the counter captured by the __COUNTER__ handler in the table
    found,          \* what the last call returned if it was find_macro: the token
                    \* given and the macro returned
    \* ---- history of the table (not program state) ----
    latest,         \* name -> what the most recent define of it gave (Null after an undefine)
    nexp            \* expansions of __COUNTER__ since init_builtin_macro

tabVars == <<counter, found, latest, nexp>>

VARIABLES
    \* ---- IncludeManager ----
    include_paths_,         \* std::vector<fs::path> include_paths_
    include_next_index_,    \* size_t include_next_index_
    pragma_once_,           \* set of canonical paths
    include_guards_,        \* canonical path -> guard macro name
    include_file_count_,    \* size_t include_file_count_
    cache,                  \* the static map of search_include_path: filename -> path
    \* ---- history of the manager (not program state) ----
    includedBefore,         \* canonical paths include_file has returned normally for
    lastInclude             \* the last call of include_file: what it was asked and gave

incVars == <<include_paths_, include_next_index_, pragma_once_, include_guards_,
             include_file_count_, cache, includedBefore, lastInclude>>

VARIABLES
    \* ---- Token objects (basic_types.hpp) ----
    heap,           \* the tokens alive: id -> kind, text, hideset, next (0 is nullptr)
    hideset_mutex_, \* the shared_mutex of token 1: held exclusively or not, and the
                    \* number of shared holders
    tpc,            \* per thread: where it stands in its call on token 1
    tjob,           \* per thread: the names its add_hideset has still to insert, the
                    \* set it was given, the name its is_in_hideset asks for
    tret,           \* per thread: what its last is_in_hideset returned
    \* ---- history of the tokens (not program state) ----
    returned,       \* the names of the add_hideset calls on token 1 that have returned
    copies,         \* the copies made: original, copy, the original's hideset then
    lastOp          \* the last call on a token made outside the threads

tokVars == <<heap, hideset_mutex_, tpc, tjob, tret, returned, copies, lastOp>>

vars == <<lruVars, condVars, expVars, tabVars, incVars, tokVars>>

(***************************************************************************)
(* Generic helpers.                                                        *)
(***************************************************************************)
Range(s) == {s[i] : i \in 1..Len(s)}

Without(s, x) == SelectSeq(s, LAMBDA e : e # x)

(***************************************************************************)
(* LRUCache.                                                               *)
(* A list node is [id, first, second]; id stands for the node's address,   *)
(* which is what a std::list iterator holds.  0 stands for end().          *)
(***************************************************************************)
NoOp == [name |-> "none", key |-> 0, value |-> 0]
None == [has |-> FALSE, second |-> 0]      \* std::nullopt / void
Some(v) == [has |-> TRUE, second |-> v]    \* an optional or integer result

Ops ==
    [name : {"put"}, key : Keys, value : Vals]
    \cup [name : {"get", "erase"}, key : Keys, value : {0}]
    \cup [name : {"clear", "size"}, key : {0}, value : {0}]

\* a thread that is not running the loop
NoJob == [key |-> 0, value |-> 0, step |-> "none", i |-> 0]

\* the call a thread makes next: any one, or the one its loop is at
Requests(t) ==
    IF job[t].step = "none" THEN Ops
    ELSE {[name |-> job[t].step, key |-> job[t].key,
           value |-> IF job[t].step = "put" THEN job[t].value ELSE 0]}

NodeIds(list) == {list[i].id : i \in 1..Len(list)}

\* operator new for a list node: the lowest address not in use
NewNode(list) == CHOOSE n \in 1..(Len(list) + 1) : n \notin NodeIds(list)

\* an erase that leaves the node in the list
ListEraseNothing(list, id) == list

\* std::list::erase(iterator)
ListErase(list, id) == SelectSeq(list, LAMBDA n : n.id # id)

\* std::list::push_front
PushFront(list, node) == <<node>> \o list

\* *iterator ; an iterator to a freed node reads whatever is there now
Deref(list, id) ==
    IF id \in NodeIds(list)
    THEN CHOOSE n \in Range(list) : n.id = id
    ELSE [id |-> id, first |-> 0, second |-> 0]

\* a get that forgets to move the node
SpliceFrontNoMove(list, id) == list

\* std::list::splice(begin(), list, iterator)
SpliceFront(list, id) ==
    IF id \in NodeIds(list)
    THEN <<Deref(list, id)>> \o ListErase(list, id)
    ELSE list

\* a find that gives some entry when the key is not there
MapFindAny(map, key) ==
    IF key \in DOMAIN map THEN map[key]
    ELSE IF DOMAIN map = {} THEN 0
    ELSE map[CHOOSE k \in DOMAIN map : TRUE]

\* std::unordered_map::find ; 0 is end()
MapFind(map, key) == IF key \in DOMAIN map THEN map[key] ELSE 0

\* a map erase that leaves the entry where it is
MapEraseNothing(map, key) == map

MapErase(map, key) == [k \in (DOMAIN map) \ {key} |-> map[k]]

MapSet(map, key, id) == [k \in (DOMAIN map) \cup {key} |-> IF k = key THEN id ELSE map[k]]

EmptyMap == [k \in {} |-> 0]

\* a capacity test that is off by one
IsFullOffByOne(list, max) == Len(list) > max

\* a capacity test that evicts one entry early
IsFullEarly(list, max) == list # <<>> /\ Len(list) + 1 >= max

\* the capacity test of put (lru_cache.hpp:42)
IsFull(list, max) == Len(list) >= max

\* the node put evicts when the cache is full (lru_cache.hpp:44)
Victim(list) == list[Len(list)]

\* history: key k has just been touched
Touch(order, k) == Append(Without(order, k), k)

\* a constructor without the test for zero
LRUCache_Unchecked(max_size) ==
    [done |-> TRUE, thrown |-> "", max_size |-> max_size]

\* LRUCache::LRUCache (lru_cache.hpp:21-25)
LRUCache_LRUCache(max_size) ==
    IF max_size = 0
    THEN [done |-> FALSE, thrown |-> "invalid_argument", max_size |-> max_size]
    ELSE [done |-> TRUE, thrown |-> "", max_size |-> max_size]

\* no constructor has been called
NotConstructed == [done |-> FALSE, thrown |-> "", max_size |-> 0]

InitLRU ==
    /\ max_size_ \in 1..MaxCapacity
    /\ cache_list_ = <<>>
    /\ cache_map_ = EmptyMap
    /\ mutex_ = 0
    /\ pc = [t \in Threads |-> "idle"]
    /\ cur = [t \in Threads |-> NoOp]
    /\ it = [t \in Threads |-> 0]
    /\ ret = [t \in Threads |-> None]
    /\ touched = <<>>
    /\ lastPut = [k \in Keys |-> 0]
    /\ evicted = 0
    /\ job = [t \in Threads |-> NoJob]
    /\ fresh = [t \in Threads |-> FALSE]
    /\ construction = LRUCache_LRUCache(max_size_)

\* a thread issues a call; it blocks in the lock_guard constructor
Call(t) ==
    /\ construction.done
    /\ pc[t] = "idle"
    /\ pc' = [pc EXCEPT ![t] = "wait"]
    /\ UNCHANGED <<max_size_, cache_list_, cache_map_, mutex_, cur, it, ret,
                   touched, lastPut, evicted>>
    /\ UNCHANGED <<job, fresh, construction>>
    /\ UNCHANGED <<condVars, expVars, tabVars, incVars, tokVars>>

\* a call that enters without waiting for the mutex
lock_guardNoExclusion(t) ==
    /\ pc[t] = "wait"
    /\ mutex_' = t
    /\ \E o \in Requests(t) :
        /\ cur' = [cur EXCEPT ![t] = o]
        /\ pc' = [pc EXCEPT ![t] = IF o.name \in {"put", "get", "erase"}
                                   THEN "find" ELSE "body"]
    /\ UNCHANGED <<max_size_, cache_list_, cache_map_, it, ret,
                   touched, lastPut, evicted>>
    /\ UNCHANGED <<job, fresh, construction>>
    /\ UNCHANGED <<condVars, expVars, tabVars, incVars, tokVars>>

\* std::lock_guard<std::mutex> lock_guard(this->mutex_)
lock_guard(t) ==
    /\ pc[t] = "wait"
    /\ mutex_ = 0
    /\ mutex_' = t
    /\ \E o \in Requests(t) :
        /\ cur' = [cur EXCEPT ![t] = o]
        /\ pc' = [pc EXCEPT ![t] = IF o.name \in {"put", "get", "erase"}
                                   THEN "find" ELSE "body"]
    /\ UNCHANGED <<max_size_, cache_list_, cache_map_, it, ret,
                   touched, lastPut, evicted>>
    /\ UNCHANGED <<job, fresh, construction>>
    /\ UNCHANGED <<condVars, expVars, tabVars, incVars, tokVars>>

\* auto it = this->cache_map_.find(key)
find(t) ==
    /\ pc[t] = "find"
    /\ it' = [it EXCEPT ![t] = MapFind(cache_map_, cur[t].key)]
    /\ pc' = [pc EXCEPT ![t] = "body"]
    /\ UNCHANGED <<max_size_, cache_list_, cache_map_, mutex_, cur, ret,
                   touched, lastPut, evicted>>
    /\ UNCHANGED <<job, fresh, construction>>
    /\ UNCHANGED <<condVars, expVars, tabVars, incVars, tokVars>>

put(t) ==
    /\ pc[t] = "body"
    /\ cur[t].name = "put"
    /\ LET key == cur[t].key
           value == cur[t].value
       IN  IF it[t] # 0
           THEN LET l1 == ListErase(cache_list_, it[t])
                    n == NewNode(l1)
                IN  /\ cache_list_' = PushFront(l1, [id |-> n, first |-> key, second |-> value])
                    /\ cache_map_' = MapSet(cache_map_, key, n)
                    /\ evicted' = 0
           ELSE LET full == IsFull(cache_list_, max_size_)
                    tail == Victim(cache_list_)
                    l1 == IF full THEN ListErase(cache_list_, tail.id) ELSE cache_list_
                    m1 == IF full THEN MapErase(cache_map_, tail.first) ELSE cache_map_
                    n == NewNode(l1)
                IN  /\ cache_list_' = PushFront(l1, [id |-> n, first |-> key, second |-> value])
                    /\ cache_map_' = MapSet(m1, key, n)
                    /\ evicted' = IF full THEN tail.first ELSE 0
    /\ touched' = Touch(Without(touched, evicted'), cur[t].key)
    /\ lastPut' = [k \in Keys |-> IF k = cur[t].key THEN cur[t].value
                                  ELSE IF k = evicted' THEN 0 ELSE lastPut[k]]
    /\ ret' = [ret EXCEPT ![t] = None]
    /\ pc' = [pc EXCEPT ![t] = "done"]
    /\ UNCHANGED <<max_size_, mutex_, cur, it>>
    /\ fresh' = [u \in Threads |->
                    IF u = t THEN job[t].step = "put"
                    ELSE IF job[u].key = cur[t].key THEN FALSE ELSE fresh[u]]
    /\ UNCHANGED <<job, construction>>
    /\ UNCHANGED <<condVars, expVars, tabVars, incVars, tokVars>>

get(t) ==
    /\ pc[t] = "body"
    /\ cur[t].name = "get"
    /\ IF it[t] = 0
       THEN /\ ret' = [ret EXCEPT ![t] = None]
            /\ UNCHANGED <<cache_list_, touched>>
       ELSE /\ cache_list_' = SpliceFront(cache_list_, it[t])
            /\ ret' = [ret EXCEPT ![t] = Some(Deref(cache_list_, it[t]).second)]
            /\ touched' = Touch(touched, cur[t].key)
    /\ pc' = [pc EXCEPT ![t] = "done"]
    /\ UNCHANGED <<max_size_, cache_map_, mutex_, cur, it, lastPut, evicted>>
    /\ UNCHANGED <<job, fresh, construction>>
    /\ UNCHANGED <<condVars, expVars, tabVars, incVars, tokVars>>

erase(t) ==
    /\ pc[t] = "body"
    /\ cur[t].name = "erase"
    /\ IF it[t] # 0
       THEN /\ cache_list_' = ListErase(cache_list_, it[t])
            /\ cache_map_' = MapErase(cache_map_, cur[t].key)
       ELSE UNCHANGED <<cache_list_, cache_map_>>
    /\ touched' = Without(touched, cur[t].key)
    /\ lastPut' = [lastPut EXCEPT ![cur[t].key] = 0]
    /\ ret' = [ret EXCEPT ![t] = None]
    /\ pc' = [pc EXCEPT ![t] = "done"]
    /\ UNCHANGED <<max_size_, mutex_, cur, it, evicted>>
    /\ UNCHANGED <<job, fresh, construction>>
    /\ UNCHANGED <<condVars, expVars, tabVars, incVars, tokVars>>

clear(t) ==
    /\ pc[t] = "body"
    /\ cur[t].name = "clear"
    /\ cache_map_' = EmptyMap
    /\ cache_list_' = <<>>
    /\ touched' = <<>>
    /\ lastPut' = [k \in Keys |-> 0]
    /\ ret' = [ret EXCEPT ![t] = None]
    /\ pc' = [pc EXCEPT ![t] = "done"]
    /\ UNCHANGED <<max_size_, mutex_, cur, it, evicted>>
    /\ UNCHANGED <<job, fresh, construction>>
    /\ UNCHANGED <<condVars, expVars, tabVars, incVars, tokVars>>

size(t) ==
    /\ pc[t] = "body"
    /\ cur[t].name = "size"
    /\ ret' = [ret EXCEPT ![t] = Some(Len(cache_list_))]
    /\ pc' = [pc EXCEPT ![t] = "done"]
    /\ UNCHANGED <<max_size_, cache_list_, cache_map_, mutex_, cur, it,
                   touched, lastPut, evicted>>
    /\ UNCHANGED <<job, fresh, construction>>
    /\ UNCHANGED <<condVars, expVars, tabVars, incVars, tokVars>>

\* a return that leaves the mutex locked
unlockHeld(t) ==
    /\ pc[t] = "done"
    /\ mutex_' = mutex_
    /\ pc' = [pc EXCEPT ![t] = "idle"]
    /\ cur' = [cur EXCEPT ![t] = NoOp]
    /\ it' = [it EXCEPT ![t] = 0]
    /\ ret' = [ret EXCEPT ![t] = None]
    /\ evicted' = 0
    /\ UNCHANGED <<max_size_, cache_list_, cache_map_, touched, lastPut>>
    /\ UNCHANGED <<job, fresh, construction>>
    /\ UNCHANGED <<condVars, expVars, tabVars, incVars, tokVars>>

\* the call returns: ~lock_guard releases the mutex
unlock(t) ==
    /\ pc[t] = "done"
    /\ mutex_' = IF mutex_ = t THEN 0 ELSE mutex_
    /\ pc' = [pc EXCEPT ![t] = "idle"]
    /\ cur' = [cur EXCEPT ![t] = NoOp]
    /\ it' = [it EXCEPT ![t] = 0]
    /\ ret' = [ret EXCEPT ![t] = None]
    /\ evicted' = 0
    /\ UNCHANGED <<max_size_, cache_list_, cache_map_, touched, lastPut>>
    /\ UNCHANGED <<job, fresh, construction>>
    /\ UNCHANGED <<condVars, expVars, tabVars, incVars, tokVars>>

LRUAtRest ==
    /\ max_size_ = 1
    /\ cache_list_ = <<>>
    /\ cache_map_ = EmptyMap
    /\ mutex_ = 0
    /\ pc = [t \in Threads |-> "idle"]
    /\ cur = [t \in Threads |-> NoOp]
    /\ it = [t \in Threads |-> 0]
    /\ ret = [t \in Threads |-> None]
    /\ touched = <<>>
    /\ lastPut = [k \in Keys |-> 0]
    /\ evicted = 0
    /\ job = [t \in Threads |-> NoJob]
    /\ fresh = [t \in Threads |-> FALSE]
    /\ construction = LRUCache_LRUCache(1)

NextLRU ==
    \E t \in Threads :
        \/ Call(t)
        \/ lock_guard(t)
        \/ find(t)
        \/ put(t)
        \/ get(t)
        \/ erase(t)
        \/ clear(t)
        \/ size(t)
        \/ unlock(t)

\* LRUCache<int, int> cache(max_size): when the constructor throws there is
\* no object, and max_size_ is never initialised
LRUCache(max_size) ==
    /\ construction = NotConstructed
    /\ construction' = LRUCache_LRUCache(max_size)
    /\ max_size_' = IF construction'.done THEN max_size ELSE max_size_
    /\ UNCHANGED <<cache_list_, cache_map_, mutex_, pc, cur, it, ret,
                   touched, lastPut, evicted, job, fresh>>
    /\ UNCHANGED <<condVars, expVars, tabVars, incVars, tokVars>>

\* before the constructor call
InitNew ==
    /\ max_size_ = 0
    /\ cache_list_ = <<>>
    /\ cache_map_ = EmptyMap
    /\ mutex_ = 0
    /\ pc = [t \in Threads |-> "idle"]
    /\ cur = [t \in Threads |-> NoOp]
    /\ it = [t \in Threads |-> 0]
    /\ ret = [t \in Threads |-> None]
    /\ touched = <<>>
    /\ lastPut = [k \in Keys |-> 0]
    /\ evicted = 0
    /\ job = [t \in Threads |-> NoJob]
    /\ fresh = [t \in Threads |-> FALSE]
    /\ construction = NotConstructed

NextNew ==
    \/ \E max_size \in 0..MaxCapacity : LRUCache(max_size)
    \/ NextLRU

\* int key = start_key + i (test_lru_cache.cpp:118), with the keys kept to
\* max_size_ in number: the threads start at different keys and run into
\* each other's
KeyOf(t, i) == ((t + i) % max_size_) + 1

\* thread_func of the concurrency test (test_lru_cache.cpp:114-133): each
\* of its MaxIterations iterations puts a key and then gets it; each thread
\* puts a value of its own.
thread_func(t) ==
    /\ pc[t] = "idle"
    /\ job[t].step \in {"put", "get"}
    /\ IF job[t].step = "put"
       THEN /\ job' = [job EXCEPT ![t].step = "get"]
            /\ UNCHANGED fresh
       ELSE /\ job[t].i < MaxIterations
            /\ job' = [job EXCEPT ![t] = [key |-> KeyOf(t, job[t].i), value |-> t,
                                           step |-> "put", i |-> job[t].i + 1]]
            /\ fresh' = [fresh EXCEPT ![t] = FALSE]
    /\ pc' = [pc EXCEPT ![t] = "wait"]
    /\ UNCHANGED <<max_size_, cache_list_, cache_map_, mutex_, cur, it, ret,
                   touched, lastPut, evicted, construction>>
    /\ UNCHANGED <<condVars, expVars, tabVars, incVars, tokVars>>

\* the loop of thread_func is through and the thread is joined
join(t) ==
    /\ pc[t] = "idle"
    /\ job[t].step = "get"
    /\ job[t].i = MaxIterations
    /\ job' = [job EXCEPT ![t] = [key |-> 0, value |-> 0, step |-> "end", i |-> 0]]
    /\ UNCHANGED <<max_size_, cache_list_, cache_map_, mutex_, pc, cur, it, ret,
                   touched, lastPut, evicted, fresh, construction>>
    /\ UNCHANGED <<condVars, expVars, tabVars, incVars, tokVars>>

\* the test's cache and its threads before the first iteration
InitThreads ==
    /\ max_size_ \in 1..MaxCapacity
    /\ cache_list_ = <<>>
    /\ cache_map_ = EmptyMap
    /\ mutex_ = 0
    /\ pc = [t \in Threads |-> "idle"]
    /\ cur = [t \in Threads |-> NoOp]
    /\ it = [t \in Threads |-> 0]
    /\ ret = [t \in Threads |-> None]
    /\ touched = <<>>
    /\ lastPut = [k \in Keys |-> 0]
    /\ evicted = 0
    /\ job = [t \in Threads |-> [key |-> 0, value |-> 0, step |-> "get", i |-> 0]]
    /\ fresh = [t \in Threads |-> FALSE]
    /\ construction = LRUCache_LRUCache(max_size_)

NextThreads ==
    \E t \in Threads :
        \/ thread_func(t)
        \/ join(t)
        \/ lock_guard(t)
        \/ find(t)
        \/ put(t)
        \/ get(t)
        \/ unlock(t)

(***************************************************************************)
(* Tokens (base_types.hpp).  A token is [kind, src, value, hideset,        *)
(* string_value]; src is the raw text src.substr(0, length), so length is  *)
(* Len(src).  A token of the stream is named by its index; Token::next of  *)
(* the last token is nullptr (0).                                          *)
(***************************************************************************)
Tok(k, s, v) ==
    [kind |-> k, src |-> s, value |-> v, hideset |-> {}, string_value |-> ""]

Hash == Tok("TK_HASH", "#", 0)
HashHash == Tok("TK_HASH", "##", 0)
Ident(s) == Tok("TK_IDENT", s, 0)
Num(s, v) == Tok("TK_NUM", s, v)
Comma == Tok("TK_COMMA", ",", 0)
LParen == Tok("TK_LPAREN", "(", 0)
RParen == Tok("TK_RPAREN", ")", 0)
Eof == Tok("TK_EOF", "", 0)

\* the lines the lexer hands over in this model
Lines == {
    <<Hash, Ident("if"), Num("0", 0)>>,
    <<Hash, Ident("if"), Num("1", 1)>>,
    <<Hash, Ident("ifdef"), Ident("A")>>,
    <<Hash, Ident("ifndef"), Ident("A")>>,
    <<Hash, Ident("elif"), Num("1", 1)>>,
    <<Hash, Ident("else")>>,
    <<Hash, Ident("endif")>>,
    <<Hash, Ident("define"), Ident("A"), LParen, RParen>>,
    <<Ident("x")>> }

RECURSIVE Flatten(_)
Flatten(ls) == IF ls = <<>> THEN <<>> ELSE Head(ls) \o Flatten(Tail(ls))

\* every stream ends with the EOF token
Streams == {Flatten(ls) \o <<Eof>> : ls \in UNION {[1..n -> Lines] : n \in 0..MaxLines}}

\* token->next (0 for nullptr); the argument is evaluated once
Next(i) ==
    CHOOSE n \in {IF j # 0 /\ j < Len(tokens) THEN j + 1 ELSE 0 : j \in {i}} : TRUE

Kind(i) == tokens[i].kind

\* Token::is_hash
is_hash(i) == Kind(i) = "TK_HASH"

\* Token::equals
equals(i, target) == Kind(i) = "TK_IDENT" /\ tokens[i].src = target

\* Token::copy
copy(tok) == tok

\* Token::add_hideset
add_hideset(tok, hs) == [tok EXCEPT !.hideset = @ \cup hs]

(***************************************************************************)
(* ErrorHandler (base_types.hpp).  error() reads the token's file first;   *)
(* Token::get_file throws when the token has none, before anything is      *)
(* printed.  Either way the call never returns.                            *)
(***************************************************************************)
NoError == [raised |-> FALSE, msg |-> "", what |-> ""]

error(hasFile, msg) ==
    [raised |-> TRUE, msg |-> msg,
     what |-> IF hasFile THEN msg ELSE "Token has no file info!"]

\* error(*token, ...) reached with token == nullptr: the empty shared_ptr is
\* dereferenced, which the language leaves undefined
Undefined == [raised |-> TRUE, msg |-> "", what |-> "undefined"]

\* what a build does with it: operator* stops on its assertion, or get_file
\* reads through address 0; no exception leaves the call.  Every other
\* result is what it is.
Outcomes(e) ==
    IF e = Undefined
    THEN {[raised |-> TRUE, msg |-> "", what |-> w] : w \in {"SIGABRT", "SIGSEGV"}}
    ELSE {e}

StrayEndif == "stray #endif (no matching #if)"
NoActive == "no active conditional directive (#if/#ifedf/#ifndef)"
StrayElif == "stray #elif (no matching #if)"
Unterminated == "unterminated conditional directive (missing #endif)"
EmptyExpr == "empty constant expression in #if"
BadDefined == "invalid 'define' usage (expected macro name)"

(***************************************************************************)
(* IncludeManager::skip_lines (include_manager.hpp).                       *)
(***************************************************************************)
RECURSIVE skip_lines(_)
skip_lines(token) ==
    IF token = 0 THEN 0
    ELSE IF ~is_hash(token) /\ Kind(token) # "TK_EOF"
         THEN skip_lines(Next(token))
         ELSE token

(***************************************************************************)
(* MacroManager (macro_manager.hpp).                                       *)
(***************************************************************************)
NoMacros == [n \in {} |-> 0]

FunctionMacroOf(name, params, va, body) ==
    [name |-> name, is_object_like |-> FALSE, params |-> params,
     va_args_name |-> va, body |-> body]

define_function_macro(table, name, params, va, body) ==
    [n \in (DOMAIN table) \cup {name} |->
        IF n = name THEN FunctionMacroOf(name, params, va, body) ELSE table[n]]

undefine_macro(table, name) == [n \in (DOMAIN table) \ {name} |-> table[n]]

\* find_macro(token) != nullptr
find_macro(table, token) ==
    tokens[token].kind = "TK_IDENT" /\ tokens[token].src \in DOMAIN table

(***************************************************************************)
(* ConditionalManager (conditional_manager.hpp).                           *)
(***************************************************************************)
Entry(ctx, token, included) == [ctx |-> ctx, token |-> token, included |-> included]

push(st, ctx, token, included) == Append(st, Entry(ctx, token, included))

\* a pop that lets a stray #endif pass
popUnchecked(st) ==
    [stack |-> IF st = <<>> THEN st ELSE SubSeq(st, 1, Len(st) - 1), err |-> NoError]

pop(st) ==
    IF st = <<>>
    THEN [stack |-> st, err |-> error(FALSE, StrayEndif)]
    ELSE [stack |-> SubSeq(st, 1, Len(st) - 1), err |-> NoError]

\* a top that gives the frame with the context it was pushed with
topAsPushed(st) ==
    IF st = <<>>
    THEN [entry |-> Entry("IN_THEN", 0, FALSE), err |-> error(FALSE, NoActive)]
    ELSE [entry |-> [st[Len(st)] EXCEPT !.ctx = "IN_THEN"], err |-> NoError]

\* top(): the frame on top, or the error it raises on an empty stack
top(st) ==
    IF st = <<>>
    THEN [entry |-> Entry("IN_THEN", 0, FALSE), err |-> error(FALSE, NoActive)]
    ELSE [entry |-> st[Len(st)], err |-> NoError]

is_empty(st) == st = <<>>

\* nested_level after an opening directive, in a version that forgets to count
NestedAfterOpenFlat(nested) == nested

\* nested_level++ (conditional_manager.hpp:61)
NestedAfterOpen(nested) == nested + 1

IsOpen(i) == equals(i, "if") \/ equals(i, "ifdef") \/ equals(i, "ifndef")

RECURSIVE SkipFrom(_, _)
SkipFrom(token, nested_level) ==
    IF token = 0
    THEN [ret |-> 0, err |-> Undefined]
    ELSE IF Kind(token) = "TK_EOF"
    THEN [ret |-> 0, err |-> error(TRUE, Unterminated)]
    ELSE IF is_hash(token) /\ Next(token) # 0 /\ IsOpen(Next(token))
    THEN SkipFrom(Next(Next(token)), NestedAfterOpen(nested_level))
    ELSE IF is_hash(token) /\ Next(token) # 0 /\ equals(Next(token), "endif")
    THEN IF nested_level = 0
         THEN [ret |-> Next(Next(token)), err |-> NoError]
         ELSE SkipFrom(Next(Next(token)), nested_level - 1)
    ELSE IF is_hash(token) /\ Next(token) # 0
            /\ (equals(Next(token), "elif") \/ equals(Next(token), "else"))
    THEN IF nested_level = 0
         THEN [ret |-> token, err |-> NoError]
         ELSE SkipFrom(Next(Next(token)), nested_level)
    ELSE SkipFrom(Next(token), nested_level)

skip_conditional(token) == SkipFrom(token, 0)

\* step 1 of eval_const_expression: the tokens of the line, copied
RECURSIVE ExprTokens(_)
ExprTokens(token) ==
    IF token # 0 /\ ~is_hash(token) /\ Kind(token) # "TK_EOF"
    THEN <<copy(tokens[token])>> \o ExprTokens(Next(token))
    ELSE <<>>

RECURSIVE ExprRest(_)
ExprRest(token) ==
    IF token # 0 /\ ~is_hash(token) /\ Kind(token) # "TK_EOF"
    THEN ExprRest(Next(token))
    ELSE token

\* step 2: every `defined` form becomes a number token; is_defined is the
\* constant false of conditional_manager.hpp:109
RECURSIVE DefinedPass(_, _)
DefinedPass(expr, i) ==
    IF i > Len(expr) THEN [expr |-> expr, err |-> NoError]
    ELSE IF expr[i].kind = "TK_IDENT" /\ expr[i].src = "defined"
    THEN LET has_paren == i + 1 <= Len(expr) /\ expr[i + 1].kind = "TK_LPAREN"
             ident_index == IF has_paren THEN i + 2 ELSE i + 1
             is_defined == FALSE
             num_token == Num(IF is_defined THEN "1" ELSE "0", IF is_defined THEN 1 ELSE 0)
             erase_end == IF has_paren THEN ident_index ELSE ident_index - 1
         IN  IF ident_index > Len(expr) \/ expr[ident_index].kind # "TK_IDENT"
             THEN [expr |-> expr, err |-> error(TRUE, BadDefined)]
             ELSE DefinedPass(SubSeq(expr, 1, i - 1) \o <<num_token>>
                                \o SubSeq(expr, erase_end + 1, Len(expr)), i + 1)
    ELSE DefinedPass(expr, i + 1)

\* step 3: the identifiers left become 0
ZeroIdents(expr) ==
    [i \in 1..Len(expr) |->
        IF expr[i].kind = "TK_IDENT" THEN Num("0", 0) ELSE expr[i]]

eval_const_expression(start_token) ==
    LET first == Next(start_token)
        rest == ExprRest(first)
        pass == DefinedPass(ExprTokens(first), 1)
        expr == ZeroIdents(pass.expr)
    IN  IF pass.err.raised THEN [value |-> 0, rest |-> rest, err |-> pass.err]
        ELSE IF expr = <<>> THEN [value |-> 0, rest |-> rest, err |-> error(TRUE, EmptyExpr)]
        ELSE [value |-> expr[1].value, rest |-> rest, err |-> NoError]

(***************************************************************************)
(* The directive handlers (command.hpp).  Each yields the token to go on   *)
(* from (ret), the stack and macro table it leaves, and the error raised.  *)
(* A raised error unwinds: what was assigned before it stays.              *)
(***************************************************************************)
Result(r, st, tbl, e) == [ret |-> r, stack |-> st, macros |-> tbl, err |-> e]

\* the part the three opening handlers share: push, then skip when excluded
OpenBlock(command_token, included, rest) ==
    LET st1 == push(stack, "IN_THEN", command_token, included)
        skip == skip_conditional(rest)
    IN  IF ~included
        THEN Result(skip.ret, st1, macros, skip.err)
        ELSE Result(rest, st1, macros, NoError)

\* an #if that pushes its frame before the expression is evaluated
IfCommand_executePushFirst(command_token) ==
    LET e == eval_const_expression(command_token)
    IN  IF e.err.raised
        THEN Result(0, push(stack, "IN_THEN", command_token, FALSE), macros, e.err)
        ELSE OpenBlock(command_token, e.value # 0, e.rest)

IfCommand_execute(command_token) ==
    LET e == eval_const_expression(command_token)
        included == e.value # 0
    IN  IF e.err.raised THEN Result(0, stack, macros, e.err)
        ELSE OpenBlock(command_token, included, e.rest)

IfdefCommand_execute(command_token) ==
    LET token == Next(command_token)
    IN  IF token = 0 \/ Kind(token) # "TK_IDENT"
        THEN Result(0, stack, macros, error(TRUE, "#ifdef requires macro name (identifier)"))
        ELSE OpenBlock(command_token, find_macro(macros, token), skip_lines(Next(token)))

\* an #ifndef that includes its branch when #ifdef does
IfndefCommand_executeAsIfdef(command_token) ==
    LET token == Next(command_token)
    IN  IF token = 0 \/ Kind(token) # "TK_IDENT"
        THEN Result(0, stack, macros, error(TRUE, "#ifndef requires macro name (identifier)"))
        ELSE OpenBlock(command_token, find_macro(macros, token), skip_lines(Next(token)))

IfndefCommand_execute(command_token) ==
    LET token == Next(command_token)
    IN  IF token = 0 \/ Kind(token) # "TK_IDENT"
        THEN Result(0, stack, macros, error(TRUE, "#ifndef requires macro name (identifier)"))
        ELSE OpenBlock(command_token, ~find_macro(macros, token), skip_lines(Next(token)))

SetTop(st, ctx, included) ==
    [st EXCEPT ![Len(st)] = Entry(ctx, st[Len(st)].token, included)]

ElifCommand_execute(command_token) ==
    IF is_empty(stack) \/ top(stack).entry.ctx = "IN_ELSE"
    THEN Result(0, stack, macros, error(TRUE, StrayElif))
    ELSE LET tp == top(stack).entry
             st1 == SetTop(stack, "IN_ELIF", tp.included)
         IN  IF tp.included
             THEN LET skip == skip_conditional(Next(command_token))
                  IN  Result(skip.ret, st1, macros, skip.err)
             ELSE LET e == eval_const_expression(command_token)
                      st2 == SetTop(stack, "IN_ELIF", e.value # 0)
                      skip == skip_conditional(e.rest)
                  IN  IF e.err.raised THEN Result(0, st1, macros, e.err)
                      ELSE IF e.value = 0 THEN Result(skip.ret, st2, macros, skip.err)
                      ELSE Result(e.rest, st2, macros, NoError)

ElseCommand_execute(command_token) ==
    IF is_empty(stack) \/ top(stack).entry.ctx = "IN_ELSE"
    THEN Result(0, stack, macros, error(TRUE, StrayElif))
    ELSE LET tp == top(stack).entry
             st1 == SetTop(stack, "IN_ELSE", tp.included)
         IN  IF tp.included
             THEN LET skip == skip_conditional(Next(command_token))
                  IN  Result(skip.ret, st1, macros, skip.err)
             ELSE Result(skip_lines(Next(command_token)),
                         SetTop(stack, "IN_ELSE", TRUE), macros, NoError)

EndifCommand_execute(command_token) ==
    LET p == pop(stack)
    IN  IF p.err.raised THEN Result(0, stack, macros, p.err)
        ELSE Result(skip_lines(Next(command_token)), p.stack, macros, NoError)

\* the parameter loop of DefineCommand::execute (command.hpp:70-89); "" is
\* the empty optional va_args_name
RECURSIVE ParseParams(_, _)
ParseParams(token, params) ==
    IF token = 0 \/ Kind(token) = "TK_RPAREN"
    THEN [token |-> token, params |-> params, va |-> "", err |-> NoError]
    ELSE IF params # <<>> /\ Kind(token) # "TK_COMMA"
    THEN [token |-> token, params |-> params, va |-> "",
          err |-> error(TRUE, "expected ',' in macro paramters")]
    ELSE LET t1 == IF Kind(token) = "TK_COMMA" THEN Next(token) ELSE token
         IN  IF t1 = 0
             THEN [token |-> 0, params |-> params, va |-> "",
                   err |-> error(FALSE, "null token")]
             ELSE IF equals(t1, "...")
             THEN [token |-> Next(t1), params |-> params, va |-> "__VA_ARGS__",
                   err |-> NoError]
             ELSE IF Kind(t1) # "TK_IDENT"
             THEN [token |-> t1, params |-> params, va |-> "",
                   err |-> error(TRUE, "expected parameter name (idnetifier) in macro")]
             ELSE ParseParams(Next(t1), Append(params, tokens[t1].src))

DefineCommand_execute(command_token) ==
    LET name_token == Next(command_token)
        token == Next(name_token)
        p == ParseParams(Next(token), <<>>)
        body_start == Next(p.token)
    IN  IF name_token = 0 \/ Kind(name_token) # "TK_IDENT"
        THEN Result(0, stack, macros, error(TRUE, "#define requires macro name (identifier)"))
        ELSE IF token # 0 /\ Kind(token) = "TK_LPAREN"
        THEN IF p.err.raised THEN Result(0, stack, macros, p.err)
             ELSE Result(ExprRest(body_start), stack,
                         define_function_macro(macros, tokens[name_token].src, p.params,
                                               p.va, ExprTokens(body_start)),
                         NoError)
        ELSE Result(token, stack, macros, NoError)

\* CommandFactory::create_command: the handler for a directive name
Directives == {"include", "define", "undef", "if", "ifdef", "ifndef", "elif",
               "else", "endif", "pragma"}

create_command(command_name) ==
    IF command_name \in Directives THEN command_name ELSE "unknown"

(***************************************************************************)
(* The drive loop (spec.md section 2): at a `#` it looks the directive     *)
(* name up, runs the handler on the name token and goes on from the token  *)
(* the handler returns; any other token is passed through.  An error ends  *)
(* the pass.                                                               *)
(***************************************************************************)
NoCmd == [cmd |-> "none", at |-> 0]

AtDirective(name) ==
    /\ ~err.raised
    /\ cursor # 0
    /\ is_hash(cursor)
    /\ Next(cursor) # 0
    /\ Kind(Next(cursor)) = "TK_IDENT"
    /\ create_command(tokens[Next(cursor)].src) = name

\* the handler went on into its branch instead of skipping it: an opening
\* directive left an included frame, an #elif/#else turned the top frame's
\* included flag on
EntersBranch(name, before, after) ==
    \/ /\ name \in {"if", "ifdef", "ifndef"}
       /\ after # <<>>
       /\ after[Len(after)].included
    \/ /\ name \in {"elif", "else"}
       /\ before # <<>> /\ after # <<>>
       /\ ~before[Len(before)].included
       /\ after[Len(after)].included

Apply(name, r) ==
    /\ stack' = r.stack
    /\ macros' = r.macros
    /\ err' \in Outcomes(r.err)
    /\ cursor' = IF r.err.raised THEN cursor ELSE r.ret
    /\ last' = [cmd |-> name, at |-> Next(cursor)]
    /\ entered' = IF ~r.err.raised /\ EntersBranch(name, stack, r.stack)
                  THEN entered \cup {Next(cursor)} ELSE entered
    /\ UNCHANGED <<tokens, pushes, pops>>
    /\ UNCHANGED <<lruVars, expVars, tabVars, incVars, tokVars>>

IfCommand == AtDirective("if") /\ Apply("if", IfCommand_execute(Next(cursor)))

IfdefCommand == AtDirective("ifdef") /\ Apply("ifdef", IfdefCommand_execute(Next(cursor)))

IfndefCommand == AtDirective("ifndef") /\ Apply("ifndef", IfndefCommand_execute(Next(cursor)))

ElifCommand == AtDirective("elif") /\ Apply("elif", ElifCommand_execute(Next(cursor)))

ElseCommand == AtDirective("else") /\ Apply("else", ElseCommand_execute(Next(cursor)))

EndifCommand == AtDirective("endif") /\ Apply("endif", EndifCommand_execute(Next(cursor)))

DefineCommand == AtDirective("define") /\ Apply("define", DefineCommand_execute(Next(cursor)))

PassToken ==
    /\ ~err.raised
    /\ cursor # 0
    /\ ~is_hash(cursor)
    /\ Kind(cursor) # "TK_EOF"
    /\ cursor' = Next(cursor)
    /\ last' = NoCmd
    /\ UNCHANGED <<tokens, stack, macros, err, pushes, pops, entered>>
    /\ UNCHANGED <<lruVars, expVars, tabVars, incVars, tokVars>>

\* the lines of the streams skip_conditional is called on directly
SkipLines == {
    <<Hash, Ident("if"), Num("1", 1)>>,
    <<Hash, Ident("ifdef"), Ident("A")>>,
    <<Hash, Ident("elif"), Num("1", 1)>>,
    <<Hash, Ident("else")>>,
    <<Hash, Ident("endif")>>,
    <<Ident("x")>> }

\* a token list as a caller can link it: the last token is the EOF token, or
\* the last `next` is null
SkipStreams ==
    {Flatten(ls) \o end : ls \in UNION {[1..n -> SkipLines] : n \in 0..MaxLines},
                          end \in {<<Eof>>, <<>>}}

\* ConditionalManager::skip_conditional called on a token of the list
SkipConditional(token) ==
    /\ last = NoCmd
    /\ LET r == skip_conditional(token)
       IN  /\ err' \in Outcomes(r.err)
           /\ cursor' = r.ret
    /\ last' = [cmd |-> "skip_conditional", at |-> token]
    /\ UNCHANGED <<tokens, stack, macros, pushes, pops, entered>>
    /\ UNCHANGED <<lruVars, expVars, tabVars, incVars, tokVars>>

InitSkip ==
    /\ tokens \in SkipStreams
    /\ cursor = 0
    /\ stack = <<>>
    /\ macros = NoMacros
    /\ err = NoError
    /\ last = NoCmd
    /\ pushes = 0
    /\ pops = 0
    /\ entered = {}

NextSkip == \E token \in 1..Len(tokens) : SkipConditional(token)

PassAtRest ==
    /\ tokens = <<Eof>>
    /\ cursor = 1
    /\ stack = <<>>
    /\ macros = NoMacros
    /\ err = NoError
    /\ last = NoCmd
    /\ pushes = 0
    /\ pops = 0
    /\ entered = {}

InitCond ==
    /\ tokens \in Streams
    /\ cursor = 1
    /\ stack = <<>>
    /\ macros = NoMacros
    /\ err = NoError
    /\ last = NoCmd
    /\ pushes = 0
    /\ pops = 0
    /\ entered = {}

\* streams made of conditional directives only, one of them an #elif with
\* no expression
ChainLines == {
    <<Hash, Ident("if"), Num("0", 0)>>,
    <<Hash, Ident("if"), Num("1", 1)>>,
    <<Hash, Ident("elif"), Num("1", 1)>>,
    <<Hash, Ident("elif")>>,
    <<Hash, Ident("else")>>,
    <<Hash, Ident("endif")>> }

Chains == {Flatten(ls) \o <<Eof>> : ls \in UNION {[1..n -> ChainLines] : n \in 0..MaxChain}}

InitChain ==
    /\ tokens \in Chains
    /\ cursor = 1
    /\ stack = <<>>
    /\ macros = NoMacros
    /\ err = NoError
    /\ last = NoCmd
    /\ pushes = 0
    /\ pops = 0
    /\ entered = {}

\* the handlers such a stream reaches
NextChain ==
    \/ IfCommand
    \/ ElifCommand
    \/ ElseCommand
    \/ EndifCommand

\* streams made of #define lines in both forms
DefineLines == {
    <<Hash, Ident("define"), Ident("A"), Ident("x")>>,
    <<Hash, Ident("define"), Ident("A")>>,
    <<Hash, Ident("define"), Ident("B"), LParen, RParen, Ident("x")>>,
    <<Hash, Ident("define"), Ident("B"), LParen, Ident("a"), Comma, Ident("b"), RParen,
      Ident("a"), Ident("b")>>,
    <<Hash, Ident("define"), Ident("A"), LParen, Ident("a"), Comma, Ident("..."), RParen,
      Ident("a")>>,
    <<Hash, Ident("define"), Ident("B"), Num("1", 1), Ident("x")>> }

DefineStreams ==
    {Flatten(ls) \o <<Eof>> : ls \in UNION {[1..n -> DefineLines] : n \in 0..MaxDefines}}

InitDefine ==
    /\ tokens \in DefineStreams
    /\ cursor = 1
    /\ stack = <<>>
    /\ macros = NoMacros
    /\ err = NoError
    /\ last = NoCmd
    /\ pushes = 0
    /\ pops = 0
    /\ entered = {}

\* the steps such a stream reaches
NextDefine ==
    \/ DefineCommand
    \/ PassToken

\* streams of #if lines: with a number, with no expression, and with a
\* name tested by `defined`, A being defined by some streams and B by none
DefinedLines == {
    <<Hash, Ident("define"), Ident("A"), LParen, RParen>>,
    <<Hash, Ident("if"), Num("1", 1)>>,
    <<Hash, Ident("if")>>,
    <<Hash, Ident("if"), Ident("defined"), LParen, Ident("A"), RParen>>,
    <<Hash, Ident("if"), Ident("defined"), Ident("A")>>,
    <<Hash, Ident("if"), Ident("defined"), LParen, Ident("B"), RParen>>,
    <<Hash, Ident("else")>>,
    <<Hash, Ident("endif")>>,
    <<Ident("x")>> }

DefinedStreams ==
    {Flatten(ls) \o <<Eof>> : ls \in UNION {[1..n -> DefinedLines] : n \in 0..MaxLines}}

InitDefined ==
    /\ tokens \in DefinedStreams
    /\ cursor = 1
    /\ stack = <<>>
    /\ macros = NoMacros
    /\ err = NoError
    /\ last = NoCmd
    /\ pushes = 0
    /\ pops = 0
    /\ entered = {}

\* the steps such a stream reaches
NextDefined ==
    \/ DefineCommand
    \/ IfCommand
    \/ ElseCommand
    \/ EndifCommand
    \/ PassToken

\* streams of #ifdef and #ifndef lines: with a name that some streams
\* define, with a name none defines, with no name and with a number
IfdefLines == {
    <<Hash, Ident("define"), Ident("A"), LParen, RParen>>,
    <<Hash, Ident("ifdef"), Ident("A")>>,
    <<Hash, Ident("ifndef"), Ident("A")>>,
    <<Hash, Ident("ifdef"), Ident("B")>>,
    <<Hash, Ident("ifdef")>>,
    <<Hash, Ident("ifndef"), Num("1", 1)>>,
    <<Hash, Ident("else")>>,
    <<Hash, Ident("endif")>>,
    <<Ident("x")>> }

IfdefStreams ==
    {Flatten(ls) \o <<Eof>> : ls \in UNION {[1..n -> IfdefLines] : n \in 0..MaxLines}}

InitIfdef ==
    /\ tokens \in IfdefStreams
    /\ cursor = 1
    /\ stack = <<>>
    /\ macros = NoMacros
    /\ err = NoError
    /\ last = NoCmd
    /\ pushes = 0
    /\ pops = 0
    /\ entered = {}

\* the steps such a stream reaches
NextIfdef ==
    \/ DefineCommand
    \/ IfdefCommand
    \/ IfndefCommand
    \/ ElseCommand
    \/ EndifCommand
    \/ PassToken

NextCond ==
    \/ IfCommand
    \/ IfdefCommand
    \/ IfndefCommand
    \/ ElifCommand
    \/ ElseCommand
    \/ EndifCommand
    \/ DefineCommand
    \/ PassToken

ObjectMacroOf(name, body) ==
    [name |-> name, is_object_like |-> TRUE, params |-> <<>>,
     va_args_name |-> "", body |-> body]

\* a define that keeps an entry the name already has
define_object_macroKeepFirst(table, name, body) ==
    [n \in (DOMAIN table) \cup {name} |->
        IF n \in DOMAIN table THEN table[n] ELSE ObjectMacroOf(name, body)]

define_object_macro(table, name, body) ==
    [n \in (DOMAIN table) \cup {name} |->
        IF n = name THEN ObjectMacroOf(name, body) ELSE table[n]]

(***************************************************************************)
(* Macro expansion (macro_manager.hpp).  expand is given the macro, the    *)
(* call-site token and the argument list; it yields the vector it returns, *)
(* the call-site token as it leaves it, and the exception it threw.        *)
(***************************************************************************)
Expansion(out, call, e) == [expanded |-> out, call_token |-> call, err |-> e]

\* new_hideset without the macro's own name
NewHidesetNoName(call, name) == call.hideset

\* Hideset new_hideset = call_token->hideset; new_hideset.insert(this->name)
NewHideset(call, name) == call.hideset \cup {name}

ObjectMacro_expand(m, call, arglist) ==
    LET new_hideset == NewHideset(call, m.name)
    IN  Expansion([i \in 1..Len(m.body) |-> add_hideset(copy(m.body[i]), new_hideset)],
                  call, NoError)

\* A std::string_view of a local std::string, read after the function that
\* owned the string has returned: the bytes may still be there or not.
DanglingReads == {"intact", "overwritten"}

Overwritten == "<freed storage>"

DanglingView(text, read) == IF read = "intact" THEN text ELSE Overwritten

\* buffer.append(token->src.data(), token->length) over the tokens
RECURSIVE Buffer(_)
Buffer(arg_tokens) ==
    IF arg_tokens = <<>> THEN ""
    ELSE Head(arg_tokens).src \o Buffer(Tail(arg_tokens))

\* FunctionMacro::stringize: Token::create leaves the hideset empty; src is a
\* view of the local string_with_quotes
stringize(hash_token, arg_tokens, read) ==
    LET buffer == Buffer(arg_tokens)
        string_with_quotes == "\"" \o buffer \o "\""
    IN  [kind |-> "TK_STR", src |-> DanglingView(string_with_quotes, read),
         value |-> 0, hideset |-> {}, string_value |-> buffer]

\* FunctionMacro::paste: src is a view of the local buffer
paste(lhs, rhs, read) ==
    LET buffer == lhs.src \o rhs.src
    IN  [kind |-> "TK_IDENT", src |-> DanglingView(buffer, read),
         value |-> 0, hideset |-> {}, string_value |-> ""]

\* arg_map[arg.name] = &arg, a later entry of the same name replacing an earlier
arg_map(arglist) ==
    [n \in {arglist[k].name : k \in DOMAIN arglist} |->
        arglist[CHOOSE k \in DOMAIN arglist :
                    /\ arglist[k].name = n
                    /\ \A j \in DOMAIN arglist : arglist[j].name = n => j <= k]]

\* copies of the argument's tokens; the hideset goes to the call-site token
RECURSIVE Substitute(_, _, _, _)
Substitute(arg_tokens, out, call, new_hideset) ==
    IF arg_tokens = <<>> THEN [out |-> out, call |-> call]
    ELSE Substitute(Tail(arg_tokens), Append(out, copy(Head(arg_tokens))),
                    add_hideset(call, new_hideset), new_hideset)

\* an empty variadic argument that is not seen as empty
va_arg_emptyNever(va_arg) == FALSE

\* va_arg->tokens.empty() (macro_manager.hpp:122)
va_arg_empty(va_arg) == va_arg.tokens = <<>>

\* the loop over the body (macro_manager.hpp:102-159); i counts from 1
RECURSIVE ExpandFrom(_, _, _, _, _, _, _)
ExpandFrom(m, i, out, call, amap, new_hideset, read) ==
    LET body == m.body
        body_size == Len(body)
        token == body[i]
    IN  IF i > body_size THEN Expansion(out, call, NoError)
        ELSE IF token.kind = "TK_HASH"
        THEN IF i + 1 > body_size
             THEN Expansion(<<>>, call, error(TRUE, "# must be followed by macro parameter!"))
             ELSE IF body[i + 1].src \notin DOMAIN amap
             THEN Expansion(<<>>, call, error(TRUE, "# not followed by valid parameter!"))
             ELSE ExpandFrom(m, i + 2,
                             Append(out, stringize(token, amap[body[i + 1].src].tokens, read)),
                             call, amap, new_hideset, read)
        ELSE IF /\ token.kind = "TK_COMMA"
                /\ i + 2 <= body_size
                /\ body[i + 1].kind = "TK_HASH"
                /\ Len(body[i + 1].src) = 2
                /\ body[i + 2].kind = "TK_IDENT"
                /\ body[i + 2].src = m.va_args_name
        THEN IF m.va_args_name \notin DOMAIN amap
             THEN Expansion(<<>>, call, error(FALSE, "unordered_map::at"))
             ELSE IF va_arg_empty(amap[m.va_args_name])
             THEN ExpandFrom(m, i + 3, out, call, amap, new_hideset, read)
             ELSE ExpandFrom(m, i + 2, Append(out, copy(token)), call, amap, new_hideset, read)
        ELSE IF token.kind = "TK_HASH" /\ i + 1 <= body_size /\ body[i + 1].kind = "TK_HASH"
        THEN IF out = <<>> \/ i + 2 > body_size
             THEN Expansion(<<>>, call, error(TRUE, "## cannot be at start/end of macro!"))
             ELSE ExpandFrom(m, i + 3,
                             [out EXCEPT ![Len(out)] = paste(out[Len(out)], body[i + 2], read)],
                             call, amap, new_hideset, read)
        ELSE IF token.kind = "TK_IDENT" /\ token.src \in DOMAIN amap
        THEN LET s == Substitute(amap[token.src].tokens, out, call, new_hideset)
             IN  ExpandFrom(m, i + 1, s.out, s.call, amap, new_hideset, read)
        ELSE ExpandFrom(m, i + 1, Append(out, add_hideset(copy(token), new_hideset)),
                        call, amap, new_hideset, read)

FunctionMacro_expand(m, call, arglist, read) ==
    ExpandFrom(m, 1, <<>>, call, arg_map(arglist), NewHideset(call, m.name), read)

\* ---- the calls of expand made in this model ----
Alphabet == {Ident("a"), Ident("b"), Ident("__VA_ARGS__"), Hash, HashHash, Comma}

Bodies == UNION {[1..n -> Alphabet] : n \in 0..MaxBody}

\* params and va_args_name of the function macros defined
Signatures == {[params |-> <<"a", "b">>, va |-> ""],
               [params |-> <<"a">>, va |-> "__VA_ARGS__"]}

\* the macro tables after one define of a macro with body b
Defined(b) ==
    {define_object_macro(NoMacros, "M", b)}
    \cup {define_function_macro(NoMacros, "F", s.params, s.va, b) : s \in Signatures}

\* the call-site token: the macro's name, with the hideset it has gathered
CallTokens(name) == {[Ident(name) EXCEPT !.hideset = hs] : hs \in SUBSET {"G"}}

ArgTokens == {<<>>, <<Ident("foo")>>, <<Ident("bar")>>, <<Ident("foo"), Ident("bar")>>}

ArgNames(m) == m.params \o (IF m.va_args_name = "" THEN <<>> ELSE <<m.va_args_name>>)

\* MacroArg {name, is_va_args, tokens}: one per parameter, in order
ArgLists(m) ==
    {[k \in DOMAIN ArgNames(m) |->
        [name |-> ArgNames(m)[k], is_va_args |-> (ArgNames(m)[k] = m.va_args_name),
         tokens |-> f[k]]] : f \in [DOMAIN ArgNames(m) -> ArgTokens]}

Expand(name, c, a, r) ==
    /\ call_token' = r.call_token
    /\ args' = a
    /\ expanded' = r.expanded
    /\ thrown' = r.err
    /\ callIn' = c
    /\ expandedBy' = name
    /\ UNCHANGED <<lruVars, condVars, tabVars, incVars, tokVars>>

\* the first call is made with a fresh call-site token and argument list, a
\* later one with the same token object and arguments again
CallSites(name) == IF expandedBy = "" THEN CallTokens(name) ELSE {call_token}

CallArgs(m) == IF expandedBy = "" THEN ArgLists(m) ELSE {args}

ObjectMacro ==
    \E name \in DOMAIN macros :
        /\ macros[name].is_object_like
        /\ \E c \in CallSites(name) :
            Expand(name, c, <<>>, ObjectMacro_expand(macros[name], c, <<>>))

FunctionMacro ==
    \E name \in DOMAIN macros :
        /\ ~macros[name].is_object_like
        /\ \E c \in CallSites(name), a \in CallArgs(macros[name]), read \in DanglingReads :
            Expand(name, c, a, FunctionMacro_expand(macros[name], c, a, read))

ExpandAtRest ==
    /\ call_token = Eof
    /\ args = <<>>
    /\ expanded = <<>>
    /\ thrown = NoError
    /\ callIn = Eof
    /\ expandedBy = ""

InitMacro ==
    /\ tokens = <<Eof>>
    /\ cursor = 1
    /\ stack = <<>>
    /\ \E b \in Bodies : macros \in Defined(b)
    /\ err = NoError
    /\ last = NoCmd
    /\ pushes = 0
    /\ pops = 0
    /\ entered = {}

NextMacro == ObjectMacro \/ FunctionMacro

(***************************************************************************)
(* ConditionalManager used on its own: calls of push and pop.              *)
(***************************************************************************)
Contexts == {"IN_THEN", "IN_ELIF", "IN_ELSE"}

StackPush ==
    /\ Len(stack) < MaxDepth
    /\ pushes <= MaxDepth
    /\ \E ctx \in Contexts, included \in BOOLEAN :
        stack' = push(stack, ctx, 1, included)
    /\ err' = NoError
    /\ pushes' = pushes + 1
    /\ last' = [cmd |-> "push", at |-> 0]
    /\ UNCHANGED <<tokens, cursor, macros, pops, entered>>
    /\ UNCHANGED <<lruVars, expVars, tabVars, incVars, tokVars>>

StackPop ==
    /\ stack' = pop(stack).stack
    /\ err' = pop(stack).err
    /\ pops' = IF pop(stack).err.raised THEN pops ELSE pops + 1
    /\ last' = [cmd |-> "pop", at |-> 0]
    /\ UNCHANGED <<tokens, cursor, macros, pushes, entered>>
    /\ UNCHANGED <<lruVars, expVars, tabVars, incVars, tokVars>>

NextStack == StackPush \/ StackPop

(***************************************************************************)
(* MacroManager used through its own methods (macro_manager.hpp:218-346):  *)
(* defines, undefine, find_macro, init_builtin_macro, and the expansion of *)
(* the builtin __COUNTER__.                                                *)
(***************************************************************************)
\* nullptr
Null == [name |-> ""]

\* a BuiltinMacro; the handler is named after the macro it was written for
BuiltinMacroOf(name, handler) ==
    [name |-> name, is_object_like |-> TRUE, handler |-> handler]

define_builtin_macro(table, name, handler) ==
    [n \in (DOMAIN table) \cup {name} |->
        IF n = name THEN BuiltinMacroOf(name, handler) ELSE table[n]]

Builtins == {"__LINE__", "__FILE__", "__COUNTER__", "__DATE__", "__TIME__"}

\* init_builtin_macro: five define_builtin_macro calls
init_builtin_macro(table) ==
    [n \in (DOMAIN table) \cup Builtins |->
        IF n \in Builtins THEN BuiltinMacroOf(n, n) ELSE table[n]]

\* find_macro on a token value: the macro, or nullptr
find_macro_ptr(table, tok) ==
    IF tok.kind # "TK_IDENT" THEN Null
    ELSE IF tok.src \in DOMAIN table THEN table[tok.src] ELSE Null

\* the __COUNTER__ handler (macro_manager.hpp:282-292): the token's value is
\* the counter before the increment, its src a view of the local
\* counter_string
counter_handler(c, token, read) ==
    [expanded |-> <<[kind |-> "TK_NUM", src |-> DanglingView(ToString(c), read),
                     value |-> (c + 1) - 1, hideset |-> {}, string_value |-> ""]>>,
     counter |-> c + 1]

\* ---- the calls made in this model ----
Names == {"A", "AB", "__COUNTER__"}

TableBodies == {<<>>, <<Ident("x")>>}

UserHandler == "user handler"

\* the tokens find_macro is asked about: identifiers, and tokens of another
\* kind with the text of a name
LookupTokens ==
    {Ident(n) : n \in Names \cup {"__LINE__"}}
    \cup {Tok("TK_STR", "A", 0), Tok("TK_NUM", "AB", 0)}

NoFind == [token |-> Eof, macro |-> Null]

\* a call that writes the entry of one name; the closure of a __COUNTER__
\* entry goes away with the entry
TableStep(cmd, table, name, macro) ==
    /\ macros' = table
    /\ latest' = [latest EXCEPT ![name] = macro]
    /\ counter' = IF name = "__COUNTER__" THEN 0 ELSE counter
    /\ nexp' = IF name = "__COUNTER__" THEN 0 ELSE nexp
    /\ found' = NoFind
    /\ last' = [cmd |-> cmd, at |-> 0, name |-> name]
    /\ UNCHANGED <<tokens, cursor, stack, err, pushes, pops, entered>>
    /\ UNCHANGED <<lruVars, expVars, incVars, tokVars>>

DefineObjectMacro ==
    \E name \in Names, body \in TableBodies :
        TableStep("define_object_macro", define_object_macro(macros, name, body), name,
                  ObjectMacroOf(name, body))

DefineFunctionMacro ==
    \E name \in Names :
        TableStep("define_function_macro",
                  define_function_macro(macros, name, <<"a">>, "", <<Ident("a")>>), name,
                  FunctionMacroOf(name, <<"a">>, "", <<Ident("a")>>))

DefineBuiltinMacro ==
    \E name \in Names :
        TableStep("define_builtin_macro", define_builtin_macro(macros, name, UserHandler), name,
                  BuiltinMacroOf(name, UserHandler))

UndefineMacro ==
    \E name \in Names : TableStep("undefine_macro", undefine_macro(macros, name), name, Null)

InitBuiltinMacro ==
    /\ macros' = init_builtin_macro(macros)
    /\ latest' = [n \in DOMAIN latest |->
                    IF n \in Builtins THEN BuiltinMacroOf(n, n) ELSE latest[n]]
    /\ counter' = 0
    /\ nexp' = 0
    /\ found' = NoFind
    /\ last' = [cmd |-> "init_builtin_macro", at |-> 0]
    /\ UNCHANGED <<tokens, cursor, stack, err, pushes, pops, entered>>
    /\ UNCHANGED <<lruVars, expVars, incVars, tokVars>>

FindMacro ==
    \E tok \in LookupTokens :
        /\ found' = [token |-> tok, macro |-> find_macro_ptr(macros, tok)]
        /\ last' = [cmd |-> "find_macro", at |-> 0]
        /\ UNCHANGED <<counter, latest, nexp>>
        /\ UNCHANGED <<tokens, cursor, stack, macros, err, pushes, pops, entered>>
        /\ UNCHANGED <<lruVars, expVars, incVars, tokVars>>

\* BuiltinMacro::expand on the macro find_macro gives for a __COUNTER__ token
BuiltinMacro ==
    LET m == find_macro_ptr(macros, Ident("__COUNTER__"))
    IN  /\ m = BuiltinMacroOf("__COUNTER__", "__COUNTER__")
        /\ counter < MaxCount
        /\ \E c \in CallTokens("__COUNTER__"), read \in DanglingReads :
            LET r == counter_handler(counter, c, read)
            IN  /\ expanded' = r.expanded
                /\ counter' = r.counter
                /\ call_token' = c
                /\ callIn' = c
                /\ args' = <<>>
                /\ thrown' = NoError
                /\ expandedBy' = "__COUNTER__"
        /\ nexp' = nexp + 1
        /\ found' = NoFind
        /\ last' = [cmd |-> "expand", at |-> 0]
        /\ UNCHANGED latest
        /\ UNCHANGED <<tokens, cursor, stack, macros, err, pushes, pops, entered>>
        /\ UNCHANGED <<lruVars, incVars, tokVars>>

TableAtRest ==
    /\ counter = 0
    /\ found = NoFind
    /\ latest = [n \in Names \cup Builtins |-> Null]
    /\ nexp = 0

\* a fresh MacroManager
InitTable == PassAtRest

NextTable ==
    \/ DefineObjectMacro
    \/ DefineFunctionMacro
    \/ DefineBuiltinMacro
    \/ UndefineMacro
    \/ InitBuiltinMacro
    \/ FindMacro
    \/ BuiltinMacro

(***************************************************************************)
(* IncludeManager (include_manager.hpp) over a small file system.  A path  *)
(* is a string; fs::exists and fs::canonical are read off the table of     *)
(* the files and directories there are.                                    *)
(***************************************************************************)
\* the file every token of the stream comes from (Token::file->name)
CurrentFile == "src/main.c"

\* what exists, with the canonical path of each: inc/link.h is a symbolic
\* link to inc/b.h; alt holds a b.h of its own; there is no directory sys
FileSystem ==
    [p \in {"src/main.c", "src/a.h", "inc/b.h", "inc/link.h", "inc/", "/inc/b.h",
            "alt/b.h"} |->
        CASE p = "inc/link.h" -> "/inc/b.h"
          [] p = "inc/" -> "/inc"
          [] p = "/inc/b.h" -> "/inc/b.h"
          [] OTHER -> "/" \o p]

\* the text of each file, as the lines a lexer would give
FileText ==
    [p \in {"/src/main.c", "/src/a.h", "/inc/b.h", "/inc", "/alt/b.h"} |->
        IF p = "/src/a.h" THEN <<Hash, Ident("pragma"), Ident("once")>> ELSE <<>>]

\* fs::exists
exists(p) == p \in DOMAIN FileSystem

\* fs::canonical of a path that exists
canonical(p) == FileSystem[p]

\* fs::path::parent_path
parent_path(p) == IF p = "src/main.c" THEN "src" ELSE ""

\* fs::path::is_absolute
is_absolute(p) == p \in {"/inc/b.h"}

\* operator/ of fs::path
Join(dir, filename) == IF is_absolute(filename) THEN filename ELSE dir \o "/" \o filename

\* the search path lists a manager is constructed with
IncludePaths == {<<>>, <<"sys", "inc">>}

\* the members of an IncludeManager
Manager ==
    [include_paths |-> include_paths_, include_next_index |-> include_next_index_,
     pragma_once |-> pragma_once_, include_guards |-> include_guards_,
     include_file_count |-> include_file_count_, cache |-> cache]

\* the loop of search_include_path over include_paths_ from position i
RECURSIVE SearchFrom(_, _, _)
SearchFrom(mgr, filename, i) ==
    IF i > Len(mgr.include_paths)
    THEN [path |-> filename, mgr |-> mgr]
    ELSE LET full_path == Join(mgr.include_paths[i], filename)
         IN  IF exists(full_path)
             THEN [path |-> full_path,
                   mgr |-> [mgr EXCEPT
                       !.cache = [f \in (DOMAIN @) \cup {filename} |->
                                     IF f = filename THEN full_path ELSE @[f]],
                       !.include_next_index = i]]
             ELSE SearchFrom(mgr, filename, i + 1)

\* IncludeManager::search_include_path
search_include_path(mgr, filename) ==
    IF is_absolute(filename) THEN [path |-> filename, mgr |-> mgr]
    ELSE IF filename \in DOMAIN mgr.cache
    THEN [path |-> mgr.cache[filename], mgr |-> mgr]
    ELSE SearchFrom(mgr, filename, 1)

\* IncludeManager::detect_include_guard; "" when none is detected
detect_include_guard(file_tokens) ==
    IF Len(file_tokens) < 4 THEN ""
    ELSE IF ~(file_tokens[1].kind = "TK_HASH")
            \/ ~(file_tokens[2].kind = "TK_IDENT" /\ file_tokens[2].src = "#define")
            \/ file_tokens[3].kind # "TK_IDENT"
    THEN ""
    ELSE LET guard_name == file_tokens[3].src
         IN  IF Len(file_tokens) < 6
                \/ ~(file_tokens[4].kind = "TK_HASH")
                \/ ~(file_tokens[5].kind = "TK_IDENT" /\ file_tokens[5].src = "define")
                \/ ~(file_tokens[6].kind = "TK_IDENT" /\ file_tokens[6].src = guard_name)
             THEN ""
             ELSE IF \E i \in 1..(Len(file_tokens) - 1) :
                        /\ i + 20 > Len(file_tokens)
                        /\ file_tokens[i].kind = "TK_IDENT" /\ file_tokens[i].src = "endif"
                        /\ file_tokens[i + 1].kind = "TK_HASH"
                  THEN guard_name ELSE ""

\* IncludeManager::include_file: the manager it leaves, the vector it
\* returns, the canonical path it settled on ("" when it raised before),
\* and whether it returned at one of the two guards
include_file(mgr, file, filename, is_dquote) ==
    LET current == Join(parent_path(file), filename)
        resolved == IF is_dquote /\ exists(current)
                    THEN [path |-> current, mgr |-> mgr]
                    ELSE search_include_path(mgr, filename)
    IN  IF ~exists(resolved.path)
        THEN [mgr |-> resolved.mgr, file_tokens |-> <<>>, full_path |-> "", guarded |-> FALSE,
              err |-> error(TRUE, "cannot open include file: " \o resolved.path)]
        ELSE LET full_path == canonical(resolved.path)
                 \* step 4 reads nothing: the vector stays empty
                 file_tokens == <<>>
                 guard_name == detect_include_guard(file_tokens)
                 guards == IF guard_name # ""
                           THEN [f \in (DOMAIN resolved.mgr.include_guards) \cup {full_path} |->
                                    IF f = full_path THEN guard_name
                                    ELSE resolved.mgr.include_guards[f]]
                           ELSE resolved.mgr.include_guards
             IN  IF full_path \in resolved.mgr.pragma_once
                 THEN [mgr |-> resolved.mgr, file_tokens |-> <<>>, full_path |-> full_path,
                       guarded |-> TRUE, err |-> NoError]
                 ELSE [mgr |-> [resolved.mgr EXCEPT
                                   !.include_file_count = @ + 1,
                                   !.include_guards = guards,
                                   !.pragma_once = @ \cup {full_path}],
                       file_tokens |-> file_tokens, full_path |-> full_path,
                       guarded |-> FALSE, err |-> NoError]

\* the `<file.h>` loop of read_include_filename
RECURSIVE AngleName(_, _)
AngleName(token, filename) ==
    IF token = 0
    THEN [filename |-> filename, token |-> 0, err |-> error(TRUE, "expected '>' in #include")]
    ELSE IF equals(token, ">")
    THEN [filename |-> filename, token |-> token, err |-> NoError]
    ELSE IF Kind(token) = "TK_EOF"
    THEN [filename |-> filename, token |-> token,
          err |-> error(TRUE, "unterminated < in #include")]
    ELSE AngleName(Next(token), filename \o tokens[token].src)

\* IncludeManager::read_include_filename; the warnings it prints change
\* nothing (every token of the stream has its file)
read_include_filename(start_token) ==
    LET token == Next(start_token)
        angle == AngleName(Next(token), "")
    IN  IF Kind(token) = "TK_STR"
        THEN [filename |-> tokens[token].string_value, is_dquote |-> TRUE,
              rest |-> skip_lines(Next(token)), err |-> NoError]
        ELSE IF Kind(token) = "TK_EOF" /\ equals(token, "<")
        THEN [filename |-> angle.filename, is_dquote |-> FALSE,
              rest |-> skip_lines(Next(angle.token)), err |-> angle.err]
        ELSE [filename |-> "", is_dquote |-> FALSE,
              rest |-> skip_lines(Next(token)), err |-> NoError]

\* IncludeCommand::execute
IncludeCommand_execute(command_token) ==
    LET name == read_include_filename(command_token)
        file == include_file(Manager, CurrentFile, name.filename, name.is_dquote)
    IN  IF name.err.raised
        THEN [ret |-> 0, err |-> name.err, called |-> FALSE, name |-> name, file |-> file]
        ELSE IF file.err.raised
        THEN [ret |-> 0, err |-> file.err, called |-> TRUE, name |-> name, file |-> file]
        ELSE [ret |-> name.rest, err |-> NoError, called |-> TRUE, name |-> name, file |-> file]

\* UndefCommand::execute
UndefCommand_execute(command_token) ==
    LET token == Next(command_token)
    IN  IF token = 0 \/ Kind(token) # "TK_IDENT"
        THEN Result(0, stack, macros, error(TRUE, "#undef requires macro name (identifier)"))
        ELSE Result(skip_lines(Next(token)), stack,
                    undefine_macro(macros, tokens[token].src), NoError)

\* a #pragma that returns the token it was given
PragmaCommand_executeStay(command_token) ==
    Result(command_token, stack, macros, NoError)

\* PragmaCommand::execute: at `once` the canonical path of the file is
\* computed and dropped
PragmaCommand_execute(command_token) ==
    LET token == Next(command_token)
    IN  IF token # 0 /\ equals(token, "once")
        THEN Result(skip_lines(Next(token)), stack, macros, NoError)
        ELSE Result(skip_lines(token), stack, macros, NoError)

NoInclude == [called |-> FALSE]

IncludeCommand ==
    /\ AtDirective("include")
    /\ LET r == IncludeCommand_execute(Next(cursor))
           m == IF r.called THEN r.file.mgr ELSE Manager
       IN  /\ err' = r.err
           /\ cursor' = IF r.err.raised THEN cursor ELSE r.ret
           /\ last' = [cmd |-> "include", at |-> Next(cursor)]
           /\ include_next_index_' = m.include_next_index
           /\ pragma_once_' = m.pragma_once
           /\ include_guards_' = m.include_guards
           /\ include_file_count_' = m.include_file_count
           /\ cache' = m.cache
           /\ lastInclude' = IF r.called
                          THEN [called |-> TRUE, filename |-> r.name.filename,
                                is_dquote |-> r.name.is_dquote,
                                full_path |-> r.file.full_path,
                                file_tokens |-> r.file.file_tokens,
                                guarded |-> r.file.guarded,
                                again |-> r.file.full_path \in includedBefore]
                          ELSE NoInclude
           /\ includedBefore' = IF r.called /\ ~r.err.raised
                                THEN includedBefore \cup {r.file.full_path}
                                ELSE includedBefore
    /\ UNCHANGED <<tokens, stack, macros, pushes, pops, entered, include_paths_>>
    /\ UNCHANGED <<lruVars, expVars, tabVars, tokVars>>

UndefCommand == AtDirective("undef") /\ Apply("undef", UndefCommand_execute(Next(cursor)))

PragmaCommand == AtDirective("pragma") /\ Apply("pragma", PragmaCommand_execute(Next(cursor)))

IncludeAtRest ==
    /\ include_paths_ = <<>>
    /\ include_next_index_ = 0
    /\ pragma_once_ = {}
    /\ include_guards_ = [f \in {} |-> ""]
    /\ include_file_count_ = 0
    /\ cache = [f \in {} |-> ""]
    /\ includedBefore = {}
    /\ lastInclude = NoInclude

\* a TK_STR token of the given contents
Str(s) == [Tok("TK_STR", "\"" \o s \o "\"", 0) EXCEPT !.string_value = s]

\* directive lines, most of them with a token after the operand
DirectiveLines == {
    <<Hash, Ident("include"), Str("a.h")>>,
    <<Hash, Ident("include"), Str("b.h"), Ident("x")>>,
    <<Hash, Ident("include"), Str("link.h")>>,
    <<Hash, Ident("include"), Str("none.h")>>,
    <<Hash, Ident("include"), Ident("FOO"), Ident("x")>>,
    <<Hash, Ident("pragma"), Ident("once")>>,
    <<Hash, Ident("pragma"), Ident("once"), Ident("x")>>,
    <<Hash, Ident("undef"), Ident("A"), Ident("x")>>,
    <<Hash, Ident("undef")>>,
    <<Hash, Ident("define"), Ident("A"), LParen, RParen>>,
    <<Hash, Ident("ifdef"), Ident("A"), Ident("x")>>,
    <<Hash, Ident("ifndef"), Ident("A"), Ident("x")>>,
    <<Hash, Ident("else"), Ident("x")>>,
    <<Hash, Ident("endif"), Ident("x")>> }

DirectiveStreams ==
    {Flatten(ls) \o <<Eof>> : ls \in UNION {[1..n -> DirectiveLines] : n \in 0..MaxDirectives}}

\* a fresh Preprocessor over one such stream, its IncludeManager constructed
\* with one of the search path lists
InitDirective ==
    /\ tokens \in DirectiveStreams
    /\ cursor = 1
    /\ stack = <<>>
    /\ macros = NoMacros
    /\ err = NoError
    /\ last = NoCmd
    /\ pushes = 0
    /\ pops = 0
    /\ entered = {}
    /\ include_paths_ \in IncludePaths
    /\ include_next_index_ = 0
    /\ pragma_once_ = {}
    /\ include_guards_ = [f \in {} |-> ""]
    /\ include_file_count_ = 0
    /\ cache = [f \in {} |-> ""]
    /\ includedBefore = {}
    /\ lastInclude = NoInclude

NextDirective ==
    \/ IncludeCommand
    \/ PragmaCommand
    \/ UndefCommand
    \/ DefineCommand
    \/ IfdefCommand
    \/ IfndefCommand
    \/ ElseCommand
    \/ EndifCommand
    \/ PassToken

(***************************************************************************)
(* Token objects (basic_types.hpp:137-260).  Every token holds its hideset *)
(* as a member; copy() makes a new object.  add_hideset and is_in_hideset  *)
(* take the token's shared_mutex, the one exclusively, the other shared.   *)
(***************************************************************************)
HideNames == {"FOO", "BAR"}

Object(kind, src, hideset, next) ==
    [kind |-> kind, src |-> src, hideset |-> hideset, next |-> next]

\* a copy that starts with an empty hideset
Token_copyNoHideset(tok) == Object(tok.kind, tok.src, {}, 0)

\* Token::copy: every field but next, which is nullptr
Token_copy(tok) == Object(tok.kind, tok.src, tok.hideset, 0)

\* Token::add_hideset, the whole call
Token_add_hideset(tok, hide_set) == [tok EXCEPT !.hideset = @ \cup hide_set]

\* Token::is_in_hideset
Token_is_in_hideset(tok, name) == name \in tok.hideset

NoTokenOp == [op |-> "none", token |-> 0, made |-> 0]

\* ---- calls made by one caller ----
Copy(t) ==
    /\ Len(heap) < MaxTokens
    /\ heap' = Append(heap, Token_copy(heap[t]))
    /\ copies' = copies \cup {[of |-> t, copy |-> Len(heap) + 1, hideset |-> heap[t].hideset]}
    /\ lastOp' = [op |-> "copy", token |-> t, made |-> Len(heap) + 1]
    /\ UNCHANGED <<hideset_mutex_, tpc, tjob, tret, returned>>
    /\ UNCHANGED <<lruVars, condVars, expVars, tabVars, incVars>>

AddHideset(t, hide_set) ==
    /\ heap' = [heap EXCEPT ![t] = Token_add_hideset(heap[t], hide_set)]
    /\ lastOp' = [op |-> "add_hideset", token |-> t, made |-> 0]
    /\ UNCHANGED <<hideset_mutex_, tpc, tjob, tret, returned, copies>>
    /\ UNCHANGED <<lruVars, condVars, expVars, tabVars, incVars>>

\* ---- calls made by threads on token 1 ----
Unlocked == [exclusive |-> FALSE, shared |-> 0]

\* a unique_lock that is granted whoever holds the mutex
unique_lockNoExclusion(mutex) == TRUE

\* std::unique_lock<std::shared_mutex>: granted when nobody holds the mutex
unique_lock(mutex) == ~mutex.exclusive /\ mutex.shared = 0

\* std::shared_lock<std::shared_mutex>: granted when no writer holds it
shared_lock(mutex) == ~mutex.exclusive

NoCall == [pending |-> {}, given |-> {}, name |-> ""]

\* add_hideset is called and takes the lock (basic_types.hpp:212)
AddLock(t, hide_set) ==
    /\ tpc[t] = "idle"
    /\ unique_lock(hideset_mutex_)
    /\ hideset_mutex_' = [hideset_mutex_ EXCEPT !.exclusive = TRUE]
    /\ tpc' = [tpc EXCEPT ![t] = "insert"]
    /\ tjob' = [tjob EXCEPT ![t] = [pending |-> hide_set, given |-> hide_set, name |-> ""]]
    /\ UNCHANGED <<heap, tret, returned, copies, lastOp>>
    /\ UNCHANGED <<lruVars, condVars, expVars, tabVars, incVars>>

\* one turn of the loop: this->hideset.insert(name) (basic_types.hpp:213-215)
AddInsert(t) ==
    /\ tpc[t] = "insert"
    /\ \E name \in tjob[t].pending :
        /\ heap' = [heap EXCEPT ![1].hideset = @ \cup {name}]
        /\ tjob' = [tjob EXCEPT ![t].pending = @ \ {name}]
    /\ UNCHANGED <<hideset_mutex_, tpc, tret, returned, copies, lastOp>>
    /\ UNCHANGED <<lruVars, condVars, expVars, tabVars, incVars>>

\* the loop is through: the lock is released and the call returns
AddReturn(t) ==
    /\ tpc[t] = "insert"
    /\ tjob[t].pending = {}
    /\ hideset_mutex_' = [hideset_mutex_ EXCEPT !.exclusive = FALSE]
    /\ tpc' = [tpc EXCEPT ![t] = "idle"]
    /\ returned' = returned \cup tjob[t].given
    /\ tjob' = [tjob EXCEPT ![t] = NoCall]
    /\ UNCHANGED <<heap, tret, copies, lastOp>>
    /\ UNCHANGED <<lruVars, condVars, expVars, tabVars, incVars>>

\* is_in_hideset is called and takes the lock (basic_types.hpp:220)
ReadLock(t, name) ==
    /\ tpc[t] = "idle"
    /\ shared_lock(hideset_mutex_)
    /\ hideset_mutex_' = [hideset_mutex_ EXCEPT !.shared = @ + 1]
    /\ tpc' = [tpc EXCEPT ![t] = "count"]
    /\ tjob' = [tjob EXCEPT ![t] = [pending |-> {}, given |-> {}, name |-> name]]
    /\ UNCHANGED <<heap, tret, returned, copies, lastOp>>
    /\ UNCHANGED <<lruVars, condVars, expVars, tabVars, incVars>>

\* return this->hideset.count(name) > 0, the lock released (basic_types.hpp:221)
ReadReturn(t) ==
    /\ tpc[t] = "count"
    /\ tret' = [tret EXCEPT ![t] = Token_is_in_hideset(heap[1], tjob[t].name)]
    /\ hideset_mutex_' = [hideset_mutex_ EXCEPT !.shared = @ - 1]
    /\ tpc' = [tpc EXCEPT ![t] = "idle"]
    /\ UNCHANGED <<heap, tjob, returned, copies, lastOp>>
    /\ UNCHANGED <<lruVars, condVars, expVars, tabVars, incVars>>

TokenAtRest ==
    /\ heap = <<Object("TK_EOF", "", {}, 0)>>
    /\ hideset_mutex_ = Unlocked
    /\ tpc = [t \in Threads |-> "idle"]
    /\ tjob = [t \in Threads |-> NoCall]
    /\ tret = [t \in Threads |-> FALSE]
    /\ returned = {}
    /\ copies = {}
    /\ lastOp = NoTokenOp

\* two tokens of a list, the first linked to the second, each with the
\* hideset it has gathered
InitCopy ==
    /\ \E h1 \in SUBSET HideNames, h2 \in SUBSET HideNames :
          heap = <<Object("TK_NUM", "123", h1, 2), Object("TK_IDENT", "x", h2, 0)>>
    /\ hideset_mutex_ = Unlocked
    /\ tpc = [t \in Threads |-> "idle"]
    /\ tjob = [t \in Threads |-> NoCall]
    /\ tret = [t \in Threads |-> FALSE]
    /\ returned = {}
    /\ copies = {}
    /\ lastOp = NoTokenOp

NextCopy ==
    \/ \E t \in DOMAIN heap : Copy(t)
    \/ \E t \in DOMAIN heap, hide_set \in SUBSET HideNames : AddHideset(t, hide_set)

\* the token of the concurrency test: created with an empty hideset
InitHideset ==
    /\ heap = <<Object("TK_IDENT", "concurrent", {}, 0)>>
    /\ hideset_mutex_ = Unlocked
    /\ tpc = [t \in Threads |-> "idle"]
    /\ tjob = [t \in Threads |-> NoCall]
    /\ tret = [t \in Threads |-> FALSE]
    /\ returned = {}
    /\ copies = {}
    /\ lastOp = NoTokenOp

NextHideset ==
    \E t \in Threads :
        \/ \E hide_set \in (SUBSET HideNames) \ {{}} : AddLock(t, hide_set)
        \/ AddInsert(t)
        \/ AddReturn(t)
        \/ \E name \in HideNames : ReadLock(t, name)
        \/ ReadReturn(t)

(***************************************************************************)
(* An IncludeManager whose search path list is replaced between lookups    *)
(* (set_include_paths, include_file).                                      *)
(***************************************************************************)
\* the lists set_include_paths is called with
SearchPathLists == {<<>>, <<"sys", "inc">>, <<"alt", "inc">>, <<"inc", "alt">>}

\* the filenames include_file is asked for
SearchNames == {"a.h", "b.h", "link.h", "none.h"}

\* IncludeManager::set_include_paths
SetIncludePaths(paths) ==
    /\ include_paths_' = paths
    /\ include_next_index_' = 0
    /\ UNCHANGED <<pragma_once_, include_guards_, include_file_count_, cache,
                   includedBefore, lastInclude>>
    /\ UNCHANGED <<lruVars, condVars, expVars, tabVars, tokVars>>

\* IncludeManager::include_file, called from a token of CurrentFile
IncludeFile(filename, is_dquote) ==
    /\ LET r == include_file(Manager, CurrentFile, filename, is_dquote)
       IN  /\ include_next_index_' = r.mgr.include_next_index
           /\ pragma_once_' = r.mgr.pragma_once
           /\ include_guards_' = r.mgr.include_guards
           /\ include_file_count_' = r.mgr.include_file_count
           /\ cache' = r.mgr.cache
           /\ lastInclude' = [called |-> TRUE, filename |-> filename,
                              is_dquote |-> is_dquote,
                              full_path |-> r.full_path,
                              file_tokens |-> r.file_tokens,
                              guarded |-> r.guarded,
                              again |-> r.full_path \in includedBefore,
                              paths |-> include_paths_]
           /\ includedBefore' = IF ~r.err.raised
                                THEN includedBefore \cup {r.full_path}
                                ELSE includedBefore
    /\ UNCHANGED include_paths_
    /\ UNCHANGED <<lruVars, condVars, expVars, tabVars, tokVars>>

\* a manager constructed with one of the lists, before any lookup
InitSearch ==
    /\ include_paths_ \in SearchPathLists
    /\ include_next_index_ = 0
    /\ pragma_once_ = {}
    /\ include_guards_ = [f \in {} |-> ""]
    /\ include_file_count_ = 0
    /\ cache = [f \in {} |-> ""]
    /\ includedBefore = {}
    /\ lastInclude = NoInclude

NextSearch ==
    \/ \E paths \in SearchPathLists : SetIncludePaths(paths)
    \/ \E filename \in SearchNames, is_dquote \in BOOLEAN : IncludeFile(filename, is_dquote)

(***************************************************************************)
(* A driver that dispatches every directive but #include and goes on from  *)
(* the token the handler returns.                                          *)
(***************************************************************************)
\* one line for each handler, and a line of text
ProgressLines == {
    <<Hash, Ident("define"), Ident("A"), LParen, RParen>>,
    <<Hash, Ident("undef"), Ident("A")>>,
    <<Hash, Ident("if"), Num("1", 1)>>,
    <<Hash, Ident("ifdef"), Ident("A")>>,
    <<Hash, Ident("ifndef"), Ident("A")>>,
    <<Hash, Ident("elif"), Num("1", 1)>>,
    <<Hash, Ident("else")>>,
    <<Hash, Ident("endif")>>,
    <<Hash, Ident("pragma"), Ident("once")>>,
    <<Ident("x")>> }

ProgressStreams ==
    {Flatten(ls) \o <<Eof>> : ls \in UNION {[1..n -> ProgressLines] : n \in 0..MaxDirectives}}

\* a fresh Preprocessor that has not been handed its stream
InitProgress ==
    /\ tokens = <<Eof>>
    /\ cursor = 1
    /\ stack = <<>>
    /\ macros = NoMacros
    /\ err = NoError
    /\ last = NoCmd
    /\ pushes = 0
    /\ pops = 0
    /\ entered = {}

\* the driver is handed the stream to go through
StartPass ==
    /\ tokens = <<Eof>>
    /\ tokens' \in ProgressStreams \ {<<Eof>>}
    /\ UNCHANGED <<cursor, stack, macros, err, last, pushes, pops, entered>>
    /\ UNCHANGED <<lruVars, expVars, tabVars, incVars, tokVars>>

NextProgress ==
    \/ StartPass
    \/ DefineCommand
    \/ UndefCommand
    \/ IfCommand
    \/ IfdefCommand
    \/ IfndefCommand
    \/ ElifCommand
    \/ ElseCommand
    \/ EndifCommand
    \/ PragmaCommand
    \/ PassToken

(***************************************************************************)
(* A finite workload on one LRUCache: every thread issues MaxIterations    *)
(* calls, each of them any of put, get, erase, clear and size.             *)
(***************************************************************************)
\* the thread issues its next call and blocks in the lock_guard constructor
Issue(t) ==
    /\ construction.done
    /\ pc[t] = "idle"
    /\ job[t].step = "none"
    /\ job[t].i < MaxIterations
    /\ job' = [job EXCEPT ![t].i = @ + 1]
    /\ pc' = [pc EXCEPT ![t] = "wait"]
    /\ UNCHANGED <<max_size_, cache_list_, cache_map_, mutex_, cur, it, ret,
                   touched, lastPut, evicted, fresh, construction>>
    /\ UNCHANGED <<condVars, expVars, tabVars, incVars, tokVars>>

\* the step thread t takes next
ThreadStep(t) ==
    \/ Issue(t)
    \/ lock_guard(t)
    \/ find(t)
    \/ put(t)
    \/ get(t)
    \/ erase(t)
    \/ clear(t)
    \/ size(t)
    \/ unlock(t)

NextWorkload == \E t \in Threads : ThreadStep(t)

(***************************************************************************)
(* Specifications.                                                         *)
(***************************************************************************)
\* a cache under concurrent callers; no pass is running
InitSpecLRU ==
    /\ InitLRU
    /\ PassAtRest
    /\ ExpandAtRest
    /\ TableAtRest
    /\ IncludeAtRest
    /\ TokenAtRest

SpecLRU == InitSpecLRU /\ [][NextLRU]_vars

\* a constructor call and the calls on the cache it made, if it made one
InitSpecNew ==
    /\ InitNew
    /\ PassAtRest
    /\ ExpandAtRest
    /\ TableAtRest
    /\ IncludeAtRest
    /\ TokenAtRest

SpecNew == InitSpecNew /\ [][NextNew]_vars

\* the threads of the concurrency test on one cache
InitSpecThreads ==
    /\ InitThreads
    /\ PassAtRest
    /\ ExpandAtRest
    /\ TableAtRest
    /\ IncludeAtRest
    /\ TokenAtRest

SpecThreads == InitSpecThreads /\ [][NextThreads]_vars

\* one pass over one token stream; the cache is not used
InitSpecCond ==
    /\ InitCond
    /\ LRUAtRest
    /\ ExpandAtRest
    /\ TableAtRest
    /\ IncludeAtRest
    /\ TokenAtRest

SpecCond == InitSpecCond /\ [][NextCond]_vars

\* one direct call of skip_conditional on a token of one list
InitSpecSkip ==
    /\ InitSkip
    /\ LRUAtRest
    /\ ExpandAtRest
    /\ TableAtRest
    /\ IncludeAtRest
    /\ TokenAtRest

SpecSkip == InitSpecSkip /\ [][NextSkip]_vars

\* direct calls of ConditionalManager::push and pop on a fresh manager
InitSpecStack ==
    /\ PassAtRest
    /\ LRUAtRest
    /\ ExpandAtRest
    /\ TableAtRest
    /\ IncludeAtRest
    /\ TokenAtRest

SpecStack == InitSpecStack /\ [][NextStack]_vars

\* calls of expand on the macro of a table holding one definition
InitSpecMacro ==
    /\ InitMacro
    /\ LRUAtRest
    /\ ExpandAtRest
    /\ TableAtRest
    /\ IncludeAtRest
    /\ TokenAtRest

SpecMacro == InitSpecMacro /\ [][NextMacro]_vars

\* one pass over a stream of conditional directives
InitSpecChain ==
    /\ InitChain
    /\ LRUAtRest
    /\ ExpandAtRest
    /\ TableAtRest
    /\ IncludeAtRest
    /\ TokenAtRest

SpecChain == InitSpecChain /\ [][NextChain]_vars

\* one pass over a stream of #define lines
InitSpecDefine ==
    /\ InitDefine
    /\ LRUAtRest
    /\ ExpandAtRest
    /\ TableAtRest
    /\ IncludeAtRest
    /\ TokenAtRest

SpecDefine == InitSpecDefine /\ [][NextDefine]_vars

\* one pass over a stream of #define and #if defined lines
InitSpecDefined ==
    /\ InitDefined
    /\ LRUAtRest
    /\ ExpandAtRest
    /\ TableAtRest
    /\ IncludeAtRest
    /\ TokenAtRest

SpecDefined == InitSpecDefined /\ [][NextDefined]_vars

\* one pass over a stream of #define, #ifdef and #ifndef lines
InitSpecIfdef ==
    /\ InitIfdef
    /\ LRUAtRest
    /\ ExpandAtRest
    /\ TableAtRest
    /\ IncludeAtRest
    /\ TokenAtRest

SpecIfdef == InitSpecIfdef /\ [][NextIfdef]_vars

\* copies and add_hideset calls made by one caller on a few tokens
InitSpecCopy ==
    /\ InitCopy
    /\ LRUAtRest
    /\ PassAtRest
    /\ ExpandAtRest
    /\ TableAtRest
    /\ IncludeAtRest

SpecCopy == InitSpecCopy /\ [][NextCopy]_vars

\* threads calling add_hideset and is_in_hideset on one token
InitSpecHideset ==
    /\ InitHideset
    /\ LRUAtRest
    /\ PassAtRest
    /\ ExpandAtRest
    /\ TableAtRest
    /\ IncludeAtRest

SpecHideset == InitSpecHideset /\ [][NextHideset]_vars

\* lookups through one manager whose search path list is replaced
InitSpecSearch ==
    /\ InitSearch
    /\ LRUAtRest
    /\ PassAtRest
    /\ ExpandAtRest
    /\ TableAtRest
    /\ TokenAtRest

SpecSearch == InitSpecSearch /\ [][NextSearch]_vars

\* the driver over a stream of directive lines; it does not stop while a
\* step is left to take
InitSpecProgress ==
    /\ InitProgress
    /\ LRUAtRest
    /\ ExpandAtRest
    /\ TableAtRest
    /\ IncludeAtRest
    /\ TokenAtRest

SpecProgress == InitSpecProgress /\ [][NextProgress]_vars /\ WF_vars(NextProgress)

\* the finite workload, every thread scheduled again and again while it
\* has a step to take
InitSpecWorkload ==
    /\ InitLRU
    /\ PassAtRest
    /\ ExpandAtRest
    /\ TableAtRest
    /\ IncludeAtRest
    /\ TokenAtRest

SpecWorkload ==
    /\ InitSpecWorkload
    /\ [][NextWorkload]_vars
    /\ \A t \in Threads : WF_vars(ThreadStep(t))

\* one pass over a stream of directive lines
InitSpecDirective ==
    /\ InitDirective
    /\ LRUAtRest
    /\ ExpandAtRest
    /\ TableAtRest
    /\ TokenAtRest

SpecDirective == InitSpecDirective /\ [][NextDirective]_vars

\* calls of the MacroManager methods on a fresh manager
InitSpecTable ==
    /\ InitTable
    /\ LRUAtRest
    /\ ExpandAtRest
    /\ TableAtRest
    /\ IncludeAtRest
    /\ TokenAtRest

SpecTable == InitSpecTable /\ [][NextTable]_vars

(***************************************************************************)
(* Properties of the conditional stack and the handlers.                   *)
(***************************************************************************)
\* token i is a `#` followed by one of the names
IsDirective(i, names) ==
    /\ i < Len(tokens)
    /\ tokens[i].kind = "TK_HASH"
    /\ tokens[i + 1].kind = "TK_IDENT"
    /\ tokens[i + 1].src \in names

Openers == {"if", "ifdef", "ifndef"}

Count(from, to, names) == Cardinality({i \in from..to : IsDirective(i, names)})

\* blocks opened before token c whose #endif is not before c
OpenDepth(c) == Count(1, c - 1, Openers) - Count(1, c - 1, {"endif"})

\* the text before token c never closes a block that is not open
WellNested(c) == \A q \in 1..c : OpenDepth(q) >= 0

\* C4: between handler calls, on a well-nested prefix, the stack depth is the
\* number of blocks opened and not yet closed by their #endif.
C4_DepthIsOpenBlocks ==
    (~err.raised /\ cursor # 0 /\ WellNested(cursor))
    => Len(stack) = OpenDepth(cursor)

\* C5: pushes matched by as many pops leave the stack empty, and a pop of the
\* empty stack raises the stray-#endif error (the exception that leaves pop
\* is the one carrying the stray-#endif message) and leaves the stack empty.
C5_PushPopRoundTrip ==
    /\ [](Len(stack) = pushes - pops)
    /\ [](pushes = pops => is_empty(stack))
    /\ [][(is_empty(stack) /\ last'.cmd = "pop")
          => (err'.raised /\ err'.what = StrayEndif /\ is_empty(stack'))]_vars

\* the first point at or after token r where a same-depth #elif/#else/#endif
\* stands; 0 when there is none
Terminators(r) ==
    {p \in r..Len(tokens) :
        /\ IsDirective(p, {"elif", "else", "endif"})
        /\ Count(r, p - 1, Openers) = Count(r, p - 1, {"endif"})}

Matching(r) ==
    IF Terminators(r) = {} THEN 0
    ELSE CHOOSE p \in Terminators(r) : \A q \in Terminators(r) : p <= q

\* where a skip from r is to resume: at a matching #elif/#else, after a
\* matching #endif
ResumeAfterSkip(r) ==
    LET p == Matching(r)
    IN  IF tokens[p + 1].src = "endif" THEN p + 2 ELSE p

IfdefOnUndefined ==
    /\ AtDirective("ifdef")
    /\ tokens[cursor + 2].kind = "TK_IDENT"
    /\ tokens[cursor + 2].src \notin DOMAIN macros

DefinesIn(from, to) == {i \in from..to : IsDirective(i, {"define"})}

\* C6: #ifdef of a name that is not defined resumes at the matching
\* #elif/#else or after the matching #endif, leaves the macro table as it
\* was, and the pass never comes back to a token of the skipped region.
C6_IfdefUndefinedSkips ==
    /\ [][(IfdefOnUndefined /\ ~err'.raised)
          => /\ Matching(cursor + 3) # 0
             /\ cursor' = ResumeAfterSkip(cursor + 3)
             /\ macros' = macros]_vars
    /\ [][cursor' >= cursor]_vars

\* an #ifdef of an undefined name has skipped a region that holds a
\* #define, and the table is still empty
C6_Witness ==
    /\ last.cmd = "ifdef"
    /\ ~err.raised
    /\ macros = NoMacros
    /\ cursor > last.at + 2
    /\ DefinesIn(last.at + 2, cursor - 1) # {}

(***************************************************************************)
(* Properties of LRUCache.                                                 *)
(***************************************************************************)
\* what the cache holds, as a caller sees it
Held == DOMAIN cache_map_

ValueOf(k) == Deref(cache_list_, cache_map_[k]).second

\* the key held whose most recent touch is the oldest
OldestTouched == Head(SelectSeq(touched, LAMBDA k : k \in Held))

PutBody(t) == pc[t] = "body" /\ cur[t].name = "put" /\ pc'[t] = "done"

GetBody(t) == pc[t] = "body" /\ cur[t].name = "get" /\ pc'[t] = "done"

InCritical(t) == pc[t] \in {"find", "body", "done"}

\* C1: a put of an absent key into a cache that holds max_size_ keys removes
\* exactly one key, the one whose most recent touch (put or successful get)
\* is the oldest; every other key stays with its value.
C1_EvictsLeastRecentlyTouched ==
    [][\A t \in Threads :
        (PutBody(t) /\ cur[t].key \notin Held /\ Cardinality(Held) = max_size_)
        => /\ Held' = (Held \ {OldestTouched}) \cup {cur[t].key}
           /\ OldestTouched \in Held
           /\ OldestTouched # cur[t].key
           /\ \A k \in Held \ {OldestTouched} : ValueOf(k)' = ValueOf(k)]_vars

\* a put has evicted a key that was put before another key still held: the
\* victim was chosen by a later get of the other key or a re-put
C1_Witness ==
    /\ evicted # 0
    /\ max_size_ = MaxCapacity
    /\ \E t \in Threads : pc[t] = "done" /\ cur[t].name = "put"
    /\ Cardinality(Held) = max_size_
    /\ \E k \in Held : k < evicted

\* C2: the number of stored entries never exceeds the capacity.
C2_SizeWithinCapacity ==
    /\ Len(cache_list_) <= max_size_
    /\ \A t \in Threads :
        (pc[t] = "done" /\ cur[t].name = "size") => ret[t].second <= max_size_

\* the cache is full and a put of one more key has just been applied
C2_Witness ==
    /\ Len(cache_list_) = max_size_
    /\ evicted # 0
    /\ \E t \in Threads : pc[t] = "done" /\ cur[t].name = "put" /\ mutex_ = t

\* C3: the calls take effect one at a time, and a get that returns a value
\* returns the value of the latest put of that key before it.
C3_Atomic ==
    /\ [](\A t, u \in Threads : (InCritical(t) /\ InCritical(u)) => t = u)
    /\ [][\A t \in Threads :
            GetBody(t)
            => /\ ret'[t].has => /\ lastPut[cur[t].key] # 0
                                    /\ ret'[t].second = lastPut[cur[t].key]
               /\ ~ret'[t].has => lastPut[cur[t].key] = 0]_vars

\* a get returns a value while another thread's call is blocked on the mutex
C3_Witness ==
    \E t, u \in Threads :
        /\ t # u
        /\ pc[t] = "done" /\ cur[t].name = "get" /\ ret[t].has
        /\ pc[u] = "wait"

(***************************************************************************)
(* Properties of macro expansion.                                          *)
(***************************************************************************)
\* the macro whose expand ran last
Expanded == macros[expandedBy]

ObjectCall == expandedBy # "" /\ Expanded.is_object_like

FunctionCall == expandedBy # "" /\ ~Expanded.is_object_like

\* the hideset every output token is to carry
Required == callIn.hideset \cup {expandedBy}

\* the tokens handed over for parameter x
ArgOf(x) == args[CHOOSE k \in DOMAIN args : args[k].name = x]

\* C7: every token in the output of a function macro's expand (copies of
\* argument tokens, the stringized token, the pasted token and the kept
\* comma included) has a hideset that contains the call-site token's
\* hideset and the macro's own name.
C7_FunctionHidesetPropagation ==
    (FunctionCall /\ ~thrown.raised) =>
        \A k \in DOMAIN expanded : Required \subseteq expanded[k].hideset

\* C8: expanding an object macro with body B from call-site token c returns
\* exactly |B| tokens, the i-th with the kind and raw text of B[i], each
\* with a hideset containing hideset(c) and the macro's name.
C8_ObjectExpansion ==
    ObjectCall =>
        /\ ~thrown.raised
        /\ Len(expanded) = Len(Expanded.body)
        /\ \A i \in 1..Len(Expanded.body) :
            /\ expanded[i].kind = Expanded.body[i].kind
            /\ expanded[i].src = Expanded.body[i].src
            /\ Required \subseteq expanded[i].hideset

\* an object macro with several body tokens was expanded from a call site
\* that already carries a hideset
C8_Witness ==
    /\ ObjectCall
    /\ Len(Expanded.body) >= 2
    /\ callIn.hideset = {"G"}
    /\ Len(expanded) = Len(Expanded.body)
    /\ \A i \in 1..Len(expanded) : expanded[i].hideset = {"G", expandedBy}

\* the body `a ## b`, with `##` lexed as one token or as two `#`
CatBodies == {<<Ident("a"), HashHash, Ident("b")>>,
              <<Ident("a"), Hash, Hash, Ident("b")>>}

CatCall ==
    /\ FunctionCall
    /\ Expanded.params = <<"a", "b">>
    /\ Expanded.body \in CatBodies
    /\ ArgOf("a").tokens = <<Ident("foo")>>
    /\ ArgOf("b").tokens = <<Ident("bar")>>

\* C9: expanding a function macro with parameters a, b and body `a ## b`
\* on the arguments foo and bar yields exactly one token, an identifier
\* whose raw text is `foobar`.
C9_PasteYieldsOneIdentifier ==
    CatCall =>
        /\ ~thrown.raised
        /\ Len(expanded) = 1
        /\ expanded[1].kind = "TK_IDENT"
        /\ expanded[1].src = "foobar"

\* raw text of tokens, one after the other
RECURSIVE TextOf(_)
TextOf(toks) == IF toks = <<>> THEN "" ELSE Head(toks).src \o TextOf(Tail(toks))

\* the body is `# X` with X a parameter of the macro
StringizeCall ==
    /\ FunctionCall
    /\ Len(Expanded.body) = 2
    /\ Expanded.body[1] = Hash
    /\ Expanded.body[2].kind = "TK_IDENT"
    /\ \E k \in DOMAIN args : args[k].name = Expanded.body[2].src

\* C10: for a body `# X` with X a parameter, expand emits exactly one
\* token for the pair, of string kind, whose decoded value is the raw text
\* of X's argument tokens concatenated with nothing in between, and whose
\* raw text is that value wrapped in double quotes.
C10_StringizeToken ==
    StringizeCall =>
        LET text == TextOf(ArgOf(Expanded.body[2].src).tokens)
        IN  /\ ~thrown.raised
            /\ Len(expanded) = 1
            /\ expanded[1].kind = "TK_STR"
            /\ expanded[1].string_value = text
            /\ expanded[1].src = "\"" \o text \o "\""

(***************************************************************************)
(* Properties of the macro table.                                          *)
(***************************************************************************)
\* a step that expands the builtin __COUNTER__
CounterExpansion == nexp' = nexp + 1

\* C11: the k-th expansion of __COUNTER__ after init_builtin_macro yields one
\* integer token whose value and text are k-1 (0, 1, 2, ...), whatever other
\* table operations come in between.
C11_CounterSequence ==
    [][CounterExpansion =>
        /\ ~thrown'.raised
        /\ Len(expanded') = 1
        /\ expanded'[1].kind = "TK_NUM"
        /\ expanded'[1].value = nexp
        /\ expanded'[1].src = ToString(nexp)]_vars

\* what a lookup of the token is to give, by the history of defines
Expected(tok) ==
    IF tok.kind = "TK_IDENT" /\ tok.src \in DOMAIN latest THEN latest[tok.src] ELSE Null

\* C15: find_macro on an identifier gives the macro of the most recent define
\* of exactly that name unless an undefine came after it, and none
\* otherwise; on a token of another kind it gives none; an undefine of an
\* absent name changes nothing and raises nothing.
C15_LastWriteWins ==
    /\ [](found # NoFind => found.macro = Expected(found.token))
    /\ [][(last'.cmd = "undefine_macro" /\ last'.name \notin DOMAIN macros)
          => (macros' = macros /\ ~err'.raised)]_vars

\* a name was defined twice and looked up; a name that shares a prefix with it
\* is in the table too
C15_Witness ==
    /\ found.token = Ident("A")
    /\ found.macro = ObjectMacroOf("A", <<Ident("x")>>)
    /\ "AB" \in DOMAIN macros
    /\ latest["AB"] = FunctionMacroOf("AB", <<"a">>, "", <<Ident("a")>>)

(***************************************************************************)
(* Properties of the branches of a conditional.                            *)
(***************************************************************************)
\* the `#` of the innermost block open at token h (0: none)
Owner(h) ==
    LET open == {o \in 1..(h - 1) :
                    /\ IsDirective(o, Openers)
                    /\ Count(o + 1, h - 1, Openers) = Count(o + 1, h - 1, {"endif"})}
    IN  IF open = {} THEN 0 ELSE CHOOSE o \in open : \A q \in open : q <= o

\* the block a directive belongs to, named by the `#` of its opening directive
ChainOf(h) == IF IsDirective(h, Openers) THEN h ELSE Owner(h)

\* the block of the directive at h has its #endif further on
Closed(h) ==
    \E p \in (h + 1)..Len(tokens) :
        /\ IsDirective(p, {"endif"})
        /\ Count(h + 1, p - 1, Openers) = Count(h + 1, p - 1, {"endif"})

\* an #else of the same block stands before h
PriorElse(h) == \E e \in 1..(h - 1) : IsDirective(e, {"else"}) /\ Owner(e) = Owner(h)

\* the pass went into an earlier branch of the block of h
BranchTaken(h) == \E e \in entered : e - 1 < h /\ ChainOf(e - 1) = ChainOf(h)

\* the #elif/#else handler runs on the directive at the cursor, in a
\* well-nested stream, in a block that has its #endif and no #else so far
LaterBranch ==
    /\ IsDirective(cursor, {"elif", "else"})
    /\ last'.at = cursor + 1
    /\ WellNested(Len(tokens))
    /\ Owner(cursor) # 0
    /\ Closed(cursor)
    /\ ~PriorElse(cursor)

\* C12: once a branch of a block has been entered, every later #elif and
\* #else of the same block is skipped, the #elif without evaluating its
\* expression (an #elif without expression raises nothing); so at most one
\* branch of a block is entered.
C12_AtMostOneBranch ==
    [][(LaterBranch /\ BranchTaken(cursor)) => (~err'.raised /\ entered' = entered)]_vars

\* the handler named runs on the directive at the cursor
Runs(names) == IsDirective(cursor, names) /\ last'.at = cursor + 1

TopInElse == stack # <<>> /\ stack[Len(stack)].ctx = "IN_ELSE"

\* C13: #elif, #else or #endif run on an empty stack raises an error, and
\* #elif or #else run while the top frame is IN_ELSE raises an error; the
\* stack (depth, top frame's ctx and included) is left as it was.
C13_StrayDirectivesRaise ==
    [][((Runs({"elif", "else", "endif"}) /\ stack = <<>>)
        \/ (Runs({"elif", "else"}) /\ TopInElse))
       => (err'.raised /\ stack' = stack)]_vars

\* an #elif came after the #else of its block and raised; the frame is still
\* the one the #else left
C13_Witness ==
    /\ err.raised
    /\ last.cmd = "elif"
    /\ TopInElse
    /\ Len(stack) = 1

(***************************************************************************)
(* Properties of #define.                                                  *)
(***************************************************************************)
\* the first `#` or EOF at or after token i
RECURSIVE LineEnd(_)
LineEnd(i) ==
    IF tokens[i].kind \in {"TK_HASH", "TK_EOF"} THEN i ELSE LineEnd(i + 1)

\* the tokens from i up to the next `#` or EOF
BodyFrom(i) == SubSeq(tokens, i, LineEnd(i) - 1)

\* the `)` that ends the parameter list opened at token lp
RECURSIVE CloseOf(_)
CloseOf(i) == IF tokens[i].kind = "TK_RPAREN" THEN i ELSE CloseOf(i + 1)

\* the parameter names between token lp and its `)`, in order
ParamsIn(lp) ==
    LET inner == SubSeq(tokens, lp + 1, CloseOf(lp) - 1)
        names == SelectSeq(inner, LAMBDA t : t.kind = "TK_IDENT" /\ t.src # "...")
    IN  [k \in 1..Len(names) |-> names[k].src]

Variadic(lp) == \E k \in (lp + 1)..(CloseOf(lp) - 1) : tokens[k].src = "..."

\* the #define handler runs on `# define NAME ...` at the cursor
DefineRuns == IsDirective(cursor, {"define"}) /\ last'.at = cursor + 1

\* C14: after `define NAME body` the table maps NAME to an object macro, after
\* `define NAME(params) body` to a function macro with those parameters; the
\* stored body is a copy of the tokens from after the name / parameter list
\* up to the next `#` or EOF, and the handler returns the token after the
\* body.
C14_DefineRegistersBothForms ==
    [][DefineRuns =>
        LET name == tokens[cursor + 2].src
            after == cursor + 3
        IN  IF tokens[after].kind = "TK_LPAREN"
            THEN /\ ~err'.raised
                 /\ name \in DOMAIN macros'
                 /\ macros'[name] =
                        FunctionMacroOf(name, ParamsIn(after),
                                        IF Variadic(after) THEN "__VA_ARGS__" ELSE "",
                                        BodyFrom(CloseOf(after) + 1))
                 /\ cursor' = LineEnd(CloseOf(after) + 1)
            ELSE /\ ~err'.raised
                 /\ name \in DOMAIN macros'
                 /\ macros'[name] = ObjectMacroOf(name, BodyFrom(after))
                 /\ cursor' = LineEnd(after)]_vars

(***************************************************************************)
(* Properties of the directive lines: #include, #pragma and warnings.      *)
(***************************************************************************)
\* the text of the file at canonical path p has a `# pragma once` line
ContainsPragmaOnce(p) ==
    /\ p \in DOMAIN FileText
    /\ \E i \in 1..(Len(FileText[p]) - 2) :
          /\ FileText[p][i].kind = "TK_HASH"
          /\ FileText[p][i + 1].src = "pragma"
          /\ FileText[p][i + 2].src = "once"

\* the include guard recorded for p names a macro that is defined
GuardDefined(p) == p \in DOMAIN include_guards_ /\ include_guards_[p] \in DOMAIN macros

\* the #include handler runs at the cursor and include_file returns to it
IncludeReturns ==
    /\ IsDirective(cursor, {"include"})
    /\ last'.at = cursor + 1
    /\ lastInclude'.called
    /\ ~err'.raised

\* C16: include_file returns an empty token sequence only for a file that was
\* included before and is guarded (it contains `#pragma once`, or its
\* recorded include-guard macro is defined); a canonical path is in the
\* pragma-once set only if the file contains `#pragma once`.
C16_ReinclusionGuard ==
    /\ [][(IncludeReturns /\ lastInclude'.file_tokens = <<>>)
          => /\ lastInclude'.again
             /\ \/ ContainsPragmaOnce(lastInclude'.full_path)
                \/ GuardDefined(lastInclude'.full_path)]_vars
    /\ [](\A p \in pragma_once_ : ContainsPragmaOnce(p))

\* token i is a token of the line that is neither `#` nor EOF
ExtraAt(i) == i # 0 /\ i <= Len(tokens) /\ ~is_hash(i) /\ Kind(i) # "TK_EOF"

\* a file of that name is found from the including file or a search directory
Opens(filename) ==
    \E dir \in {parent_path(CurrentFile)} \cup Range(include_paths_) :
        exists(Join(dir, filename))

\* the operand of the #include at the cursor is a file name that opens or a
\* macro name
IncludeOperand ==
    \/ Kind(cursor + 2) = "TK_STR" /\ Opens(tokens[cursor + 2].string_value)
    \/ Kind(cursor + 2) = "TK_IDENT"

\* what a handler leaves when it went through the rest of its line only: no
\* error, and the continuation is the first `#` or EOF after the operand
GoesOn(extra) == ~err'.raised /\ cursor' = LineEnd(extra)

\* C17: extra tokens after the operand of #undef, #endif, #else, #ifdef,
\* #ifndef, #pragma or #include do not abort: the handler applies its state
\* change (macro removed, frame pushed, popped or updated) and, unless it
\* skips an excluded block, returns the first following `#` or EOF without
\* an error.  A call of ErrorHandler::error raises and the handler does
\* nothing after it.
C17_WarningsDoNotAbort ==
    [][/\ (Runs({"undef"}) /\ Kind(cursor + 2) = "TK_IDENT" /\ ExtraAt(cursor + 3))
          => /\ GoesOn(cursor + 3)
             /\ macros' = undefine_macro(macros, tokens[cursor + 2].src)
       /\ (Runs({"endif"}) /\ stack # <<>> /\ ExtraAt(cursor + 2))
          => /\ GoesOn(cursor + 2)
             /\ stack' = SubSeq(stack, 1, Len(stack) - 1)
       /\ (Runs({"else"}) /\ stack # <<>> /\ ~TopInElse /\ ExtraAt(cursor + 2))
          => /\ Len(stack') = Len(stack)
             /\ stack'[Len(stack)].ctx = "IN_ELSE"
             /\ ~stack[Len(stack)].included
                => (GoesOn(cursor + 2) /\ stack'[Len(stack)].included)
       /\ (Runs({"ifdef", "ifndef"}) /\ Kind(cursor + 2) = "TK_IDENT" /\ ExtraAt(cursor + 3))
          => /\ Len(stack') = Len(stack) + 1
             /\ stack'[Len(stack')].ctx = "IN_THEN"
             /\ stack'[Len(stack')].included => GoesOn(cursor + 3)
       /\ (Runs({"pragma"}) /\ ExtraAt(cursor + 2) /\ ExtraAt(cursor + 3))
          => GoesOn(cursor + 3)
       /\ (Runs({"include"}) /\ IncludeOperand /\ ExtraAt(cursor + 3))
          => GoesOn(cursor + 3)
       /\ (Runs({"undef"}) /\ Kind(cursor + 2) # "TK_IDENT")
          => (err'.raised /\ macros' = macros /\ cursor' = cursor)
       /\ err'.msg # "" => err'.raised]_vars

(***************************************************************************)
(* Properties of the cache: a put of a present key, threads without        *)
(* eviction pressure, a get of an absent key.                              *)
(***************************************************************************)
\* the keys of the list, most recently used first
KeyOrder(list) == [i \in 1..Len(list) |-> list[i].first]

\* C18: a put of a key already present stores the new value, makes the key
\* the most recently used, leaves the size as it was and evicts no key, also
\* when the cache is at capacity; the other keys keep their values and order.
C18_PutPresentUpdates ==
    [][\A t \in Threads :
        (PutBody(t) /\ cur[t].key \in Held)
        => /\ Held' = Held
           /\ ValueOf(cur[t].key)' = cur[t].value
           /\ KeyOrder(cache_list_') =
                  <<cur[t].key>> \o Without(KeyOrder(cache_list_), cur[t].key)
           /\ Len(cache_list_') = Len(cache_list_)
           /\ evicted' = 0
           /\ \A k \in Held \ {cur[t].key} : ValueOf(k)' = ValueOf(k)]_vars

\* a put found its key in a cache at capacity, where the key was not the most
\* recently used, and has been applied
C18_Witness ==
    \E t \in Threads :
        /\ pc[t] = "done"
        /\ cur[t].name = "put"
        /\ it[t] # 0
        /\ max_size_ = MaxCapacity
        /\ Len(cache_list_) = max_size_
        /\ cache_list_[1].first = cur[t].key
        /\ touched[Len(touched)] = cur[t].key
        /\ evicted = 0

\* every thread has left its loop
AllJoined == \A t \in Threads : job[t].step = "end"

\* C19: when the threads put at most max_size_ distinct keys and none erases
\* or clears, no key is ever evicted; a get a thread issues right after its
\* own put of the key, no other thread having put that key since, returns the
\* value it put; and once all threads are done every key that was put is
\* held with the value last put for it.
C19_NoEvictionWithoutPressure ==
    /\ [](evicted = 0)
    /\ [][Held \subseteq Held']_vars
    /\ [][\A t \in Threads :
            (GetBody(t) /\ job[t].step = "get" /\ fresh[t])
            => ret'[t] = Some(job[t].value)]_vars
    /\ [](AllJoined =>
            \A k \in Keys :
                lastPut[k] # 0 => (k \in Held /\ ValueOf(k) = lastPut[k]))

\* all threads are done and the cache is full; the last key one thread put
\* was put again by another thread afterwards
C19_Witness ==
    /\ AllJoined
    /\ max_size_ = MaxCapacity
    /\ Cardinality(Held) = max_size_
    /\ \E t, u \in Threads :
          /\ t # u
          /\ ~fresh[t]
          /\ fresh[u]

\* C20: a get of an absent key returns an empty optional and changes
\* nothing: the keys stored, their values and their recency order stay.
C20_GetAbsentChangesNothing ==
    [][\A t \in Threads :
        (GetBody(t) /\ cur[t].key \notin Held)
        => /\ ret'[t] = None
           /\ cache_list_' = cache_list_
           /\ cache_map_' = cache_map_
           /\ touched' = touched]_vars

\* a get of a key that is not held has returned, the cache holding other keys
C20_Witness ==
    \E t \in Threads :
        /\ pc[t] = "done"
        /\ cur[t].name = "get"
        /\ cur[t].key \notin Held
        /\ ~ret[t].has
        /\ Cardinality(Held) = max_size_
        /\ max_size_ = MaxCapacity

\* the constructor is called with max_size
Constructs(max_size) == construction = NotConstructed /\ construction'.max_size = max_size
                        /\ construction' # NotConstructed

\* C21: constructing a cache with max_size 0 raises invalid_argument and
\* yields no cache (no call on it ever runs); every max_size >= 1 constructs
\* an empty cache of that capacity, whose size() is 0.
C21_Construction ==
    /\ [][/\ Constructs(0)
             => /\ construction'.thrown = "invalid_argument"
                /\ ~construction'.done
          /\ \A n \in 1..MaxCapacity :
                Constructs(n)
                => /\ construction'.done
                   /\ construction'.thrown = ""
                   /\ max_size_' = n
                   /\ cache_list_' = <<>>
                   /\ cache_map_' = EmptyMap]_vars
    /\ [](~construction.done => \A t \in Threads : pc[t] = "idle")
    /\ [][\A t \in Threads :
            (pc[t] = "body" /\ cur[t].name = "size" /\ pc'[t] = "done"
             /\ touched = <<>> /\ lastPut = [k \in Keys |-> 0])
            => ret'[t] = Some(0)]_vars

\* a cache of the largest capacity was constructed and its first call, a
\* size(), returned 0
C21_Witness ==
    /\ construction.done
    /\ max_size_ = MaxCapacity
    /\ cache_list_ = <<>>
    /\ \E t \in Threads :
          pc[t] = "done" /\ cur[t].name = "size" /\ ret[t] = Some(0)

(***************************************************************************)
(* Properties of the conditional frames and of skip_conditional.           *)
(***************************************************************************)
\* how far along IN_THEN -> IN_ELIF -> IN_ELSE a context is
Rank(ctx) == CASE ctx = "IN_THEN" -> 1 [] ctx = "IN_ELIF" -> 2 [] ctx = "IN_ELSE" -> 3

\* C22: a frame is pushed with ctx = IN_THEN, and while it is on the stack
\* its ctx only moves forward along IN_THEN -> IN_ELIF -> IN_ELSE (it may
\* stay): never from IN_ELSE to another value, never from IN_ELIF back to
\* IN_THEN.
C22_ContextIsLinear ==
    [][/\ Len(stack') <= Len(stack) + 1
       /\ \A i \in 1..Len(stack') :
            IF i <= Len(stack)
            THEN /\ stack'[i].token = stack[i].token
                 /\ Rank(stack'[i].ctx) >= Rank(stack[i].ctx)
            ELSE stack'[i].ctx = "IN_THEN"]_vars

\* a frame went through an #elif whose branch was entered and then an #else
C22_Witness ==
    /\ ~err.raised
    /\ last.cmd = "else"
    /\ stack # <<>>
    /\ stack[Len(stack)].ctx = "IN_ELSE"
    /\ \E i \in entered : tokens[i].src = "elif" /\ i < last.at

\* the first same-depth #elif/#else/#endif at or after token r, found by
\* counting the openers and the #endif lines before it
SkipTarget(r) ==
    LET p == Matching(r)
    IN  IF tokens[p + 1].src = "endif"
        THEN (IF p + 2 <= Len(tokens) THEN p + 2 ELSE 0)
        ELSE p

\* a #elif/#else/#endif strictly inside a block opened after token r
NestedTerminators(r) ==
    {p \in r..Len(tokens) :
        /\ IsDirective(p, {"elif", "else", "endif"})
        /\ Count(r, p - 1, Openers) > Count(r, p - 1, {"endif"})}

\* C23: when a same-depth terminator follows the start token,
\* skip_conditional returns the `#` of the first same-depth #elif/#else, or
\* the token after the `endif` of the first same-depth #endif, whichever
\* comes first; the terminators of nested blocks before it are passed.
C23_SkipRespectsNesting ==
    [][(last'.cmd = "skip_conditional" /\ Matching(last'.at) # 0)
       => /\ ~err'.raised
          /\ cursor' = SkipTarget(last'.at)
          /\ \A q \in NestedTerminators(last'.at) :
                q < Matching(last'.at) => (cursor' = 0 \/ q < cursor')]_vars

\* a call that has passed a whole nested block, #else and #endif included,
\* and has returned the #else of the outer block
C23_Witness ==
    /\ last.cmd = "skip_conditional"
    /\ ~err.raised
    /\ cursor \in 1..(Len(tokens) - 1)
    /\ tokens[cursor + 1].src = "else"
    /\ \E q \in NestedTerminators(last.at) :
          q < cursor /\ tokens[q + 1].src = "else"
    /\ \E q \in NestedTerminators(last.at) :
          q < cursor /\ tokens[q + 1].src = "endif"

\* C24: every call of skip_conditional ends, with a token returned or with
\* an error; when no same-depth terminator follows the start token, whether
\* the list ends with the EOF token or with a null `next`, the call raises
\* the unterminated-conditional error and returns no token.
C24_UnterminatedRaises ==
    [][last'.cmd = "skip_conditional"
       => /\ (err'.raised \/ cursor' \in 0..Len(tokens))
          /\ Matching(last'.at) = 0
               => /\ err'.raised
                  /\ err'.what = Unterminated
                  /\ cursor' = 0]_vars

\* the same call on a list that ends with the EOF token raises the error
C24_EofRaises ==
    [][(last'.cmd = "skip_conditional" /\ tokens[Len(tokens)].kind = "TK_EOF"
        /\ Matching(last'.at) = 0)
       => (err'.raised /\ err'.what = Unterminated)]_vars

(***************************************************************************)
(* Properties of the opening handlers #if, #ifdef and #ifndef.             *)
(***************************************************************************)
\* the name token tested by the `# if defined NAME` or `# if defined ( NAME )`
\* line whose `#` is token c; 0 when the line is not of that form
DefinedOperand(c) ==
    IF c + 3 <= Len(tokens) /\ IsDirective(c, {"if"})
       /\ tokens[c + 2].kind = "TK_IDENT" /\ tokens[c + 2].src = "defined"
    THEN IF tokens[c + 3].kind = "TK_IDENT" THEN c + 3
         ELSE IF c + 5 <= Len(tokens) /\ tokens[c + 3].kind = "TK_LPAREN"
                 /\ tokens[c + 4].kind = "TK_IDENT" /\ tokens[c + 5].kind = "TK_RPAREN"
         THEN c + 4
         ELSE 0
    ELSE 0

\* C25: `defined NAME` and `defined(NAME)` count as 1 when NAME is in the
\* macro table and as 0 when it is not: the frame #if pushes for such a line
\* is included exactly when NAME is defined, and the branch is entered
\* exactly then.
C25_DefinedTestsTable ==
    [][(AtDirective("if") /\ DefinedOperand(cursor) # 0 /\ last'.cmd = "if")
       => LET is_defined == tokens[DefinedOperand(cursor)].src \in DOMAIN macros
          IN  /\ Len(stack') = Len(stack) + 1
              /\ stack'[Len(stack')].included = is_defined
              /\ (Next(cursor) \in entered') = is_defined]_vars

\* the half that holds: a name that is not in the table counts as 0
C25_UndefinedIsZero ==
    [][(AtDirective("if") /\ DefinedOperand(cursor) # 0 /\ last'.cmd = "if"
        /\ tokens[DefinedOperand(cursor)].src \notin DOMAIN macros)
       => /\ Len(stack') = Len(stack) + 1
          /\ ~stack'[Len(stack')].included
          /\ Next(cursor) \notin entered']_vars

C27_IfdefIfndefComplementary ==
    [][(~err.raised /\ Runs({"ifdef", "ifndef"}))
       => LET name == cursor + 2
              is_defined == tokens[name].src \in DOMAIN macros
              included == IF tokens[cursor + 1].src = "ifdef"
                          THEN is_defined ELSE ~is_defined
          IN  IF tokens[name].kind = "TK_IDENT"
              THEN stack' = Append(stack, Entry("IN_THEN", cursor + 1, included))
              ELSE /\ err'.raised
                   /\ err'.msg = "#" \o tokens[cursor + 1].src
                                    \o " requires macro name (identifier)"
                   /\ stack' = stack]_vars

\* with A defined, `#ifdef A` has pushed an included frame and the
\* `#ifndef A` after it an excluded one
C27_Witness ==
    /\ last.cmd = "ifndef"
    /\ "A" \in DOMAIN macros
    /\ Len(stack) = 2
    /\ tokens[stack[1].token].src = "ifdef" /\ tokens[stack[1].token + 1].src = "A"
    /\ tokens[stack[2].token].src = "ifndef" /\ tokens[stack[2].token + 1].src = "A"
    /\ stack[1].included
    /\ ~stack[2].included

(***************************************************************************)
(* Properties of FunctionMacro::expand on `##` and on repeated calls.      *)
(***************************************************************************)
\* kind and raw text of the tokens of a list
KindText(toks) == [k \in DOMAIN toks |-> <<toks[k].kind, toks[k].src>>]

\* `,` `##` V with V the variadic parameter, `##` being one token
ElisionForm == <<Comma, HashHash, Ident(Expanded.va_args_name)>>

\* what a body token that stands outside every `#`, `##` and elision form
\* turns into: the argument's tokens for a parameter, itself otherwise
RECURSIVE Plain(_)
Plain(toks) ==
    IF toks = <<>> THEN <<>>
    ELSE (IF Head(toks).kind = "TK_IDENT" /\ \E k \in DOMAIN args : args[k].name = Head(toks).src
          THEN ArgOf(Head(toks).src).tokens
          ELSE <<Head(toks)>>) \o Plain(Tail(toks))

NoHash(toks) == \A k \in DOMAIN toks : toks[k].kind # "TK_HASH"

\* the expanded macro is variadic and its body is pre, the elision form, post
ElisionCall(pre, post) ==
    /\ FunctionCall
    /\ Expanded.va_args_name # ""
    /\ Expanded.body = pre \o ElisionForm \o post
    /\ NoHash(pre) /\ NoHash(post)

\* C28: for a body holding `,` `##` V with V the variadic parameter, expand
\* emits nothing for the three tokens when the variadic argument is empty,
\* and otherwise the comma, no `##`, then the tokens of the variadic
\* argument; the tokens before and after are expanded as they are anywhere.
C28_CommaElision ==
    (FunctionCall /\ Expanded.va_args_name # "")
    => \A n \in 0..Len(Expanded.body), l \in 0..Len(Expanded.body) :
        LET pre == SubSeq(Expanded.body, 1, n)
            post == SubSeq(Expanded.body, Len(Expanded.body) - l + 1, Len(Expanded.body))
            va == ArgOf(Expanded.va_args_name).tokens
        IN  (n + 3 + l = Len(Expanded.body) /\ ElisionCall(pre, post))
            => /\ ~thrown.raised
               /\ KindText(expanded)
                    = KindText(Plain(pre)
                               \o (IF va = <<>> THEN <<>> ELSE <<Comma>> \o va)
                               \o Plain(post))

\* `b , ## __VA_ARGS__` was expanded with an empty variadic argument: only
\* `b` is left
C28_Witness ==
    /\ expandedBy # ""
    /\ ElisionCall(<<Ident("b")>>, <<>>)
    /\ ArgOf(Expanded.va_args_name).tokens = <<>>
    /\ KindText(expanded) = <<(<<"TK_IDENT", "b">>)>>

\* the body starts with `##`, lexed as one token or as two `#`
StartsWithPaste(body) ==
    \/ (Len(body) >= 1 /\ body[1] = HashHash)
    \/ (Len(body) >= 2 /\ body[1] = Hash /\ body[2] = Hash)

\* the body ends with `##`
EndsWithPaste(body) ==
    \/ (Len(body) >= 1 /\ body[Len(body)] = HashHash)
    \/ (Len(body) >= 2 /\ body[Len(body) - 1] = Hash /\ body[Len(body)] = Hash)

\* C29: expanding a function macro whose body starts with `##` or ends with
\* `##` raises an error and returns no token list, whatever the token next
\* to the `##` is.
C29_MalformedPasteIsFatal ==
    (FunctionCall /\ (StartsWithPaste(Expanded.body) \/ EndsWithPaste(Expanded.body)))
    => (thrown.raised /\ expanded = <<>>)

\* the part that holds: a body that ends with `##` raises
C29_EndingPasteRaises ==
    (FunctionCall /\ EndsWithPaste(Expanded.body))
    => (thrown.raised /\ expanded = <<>>)

\* so does a body that starts with `##` lexed as two `#`
C29_TwoHashStartRaises ==
    (FunctionCall /\ Len(Expanded.body) >= 2
     /\ Expanded.body[1] = Hash /\ Expanded.body[2] = Hash)
    => (thrown.raised /\ expanded = <<>>)

\* a second call of expand on the same macro, from a call site with the
\* hideset of the call before and with the arguments of the call before
SameCallAgain ==
    /\ expandedBy # ""
    /\ expandedBy' = expandedBy
    /\ callIn'.hideset = callIn.hideset
    /\ args' = args

\* C30: expansion never changes the definition: the body tokens of the
\* macro (kind, text, hideset) stay as they were after the define, whatever
\* the number of expansions, so two expansions of one macro from call sites
\* with equal hidesets and equal arguments yield equal token sequences.
C30_ExpansionKeepsDefinition ==
    /\ [][macros' = macros]_vars
    /\ [][SameCallAgain => (thrown' = thrown /\ expanded' = expanded)]_vars

\* the part that holds: two such expansions raise alike, yield as many
\* tokens, and the tokens agree in kind, hideset and decoded value; and
\* they agree in text as well when the body holds no `#` or `##`
C30_EqualUpToText ==
    [][SameCallAgain
       => /\ thrown' = thrown
          /\ Len(expanded') = Len(expanded)
          /\ \A k \in DOMAIN expanded :
                /\ expanded'[k].kind = expanded[k].kind
                /\ expanded'[k].hideset = expanded[k].hideset
                /\ expanded'[k].string_value = expanded[k].string_value
          /\ NoHash(Expanded.body) => expanded' = expanded]_vars

(***************************************************************************)
(* Properties of the tokens handed to expand.                              *)
(***************************************************************************)
\* C31: expand, of an object or of a function macro, leaves the hideset of
\* the call-site token as it was handed in, and the argument tokens as they
\* were handed in; only the tokens of the output carry the new hideset.
C31_ExpandLeavesInputs ==
    /\ [](expandedBy # "" => call_token.hideset = callIn.hideset)
    /\ [][(expandedBy # "" /\ expandedBy' = expandedBy) => args' = args]_vars

\* the part that holds: an object macro leaves the call-site token alone,
\* and so does a function macro that substitutes no argument token
C31_ObjectLeavesCallSite ==
    (ObjectCall \/ (FunctionCall /\ \A k \in DOMAIN args : args[k].tokens = <<>>))
    => call_token = callIn

(***************************************************************************)
(* Properties of Token::copy, add_hideset and is_in_hideset.               *)
(***************************************************************************)
CopyStep == Len(heap') = Len(heap) + 1

AddStep == Len(heap') = Len(heap) /\ lastOp'.op = "add_hideset"

\* C32: Token::copy gives the new token the hideset the original has at
\* that time and next = nullptr, and leaves the original as it is; a later
\* add_hideset on the copy does not change the original's hideset, and one
\* on the original does not change the copy's.
C32_CopyOnBranch ==
    /\ [][CopyStep
          => /\ heap'[Len(heap')].hideset = heap[lastOp'.token].hideset
             /\ heap'[Len(heap')].next = 0
             /\ \A u \in DOMAIN heap : heap'[u] = heap[u]]_vars
    /\ [][AddStep
          => \A c \in copies :
                /\ lastOp'.token = c.copy => heap'[c.of].hideset = heap[c.of].hideset
                /\ lastOp'.token = c.of => heap'[c.copy].hideset = heap[c.copy].hideset]_vars

\* a token linked to a next one was copied while its hideset was {FOO};
\* afterwards BAR was added to the copy only: the original still has {FOO}
\* and its link, the copy has both names and no link
C32_Witness ==
    \E c \in copies :
        /\ c.hideset = {"FOO"}
        /\ heap[c.of].hideset = {"FOO"}
        /\ heap[c.of].next # 0
        /\ heap[c.copy].hideset = {"FOO", "BAR"}
        /\ heap[c.copy].next = 0
        /\ lastOp = [op |-> "add_hideset", token |-> c.copy, made |-> 0]

\* the threads inside add_hideset, and those inside is_in_hideset
Writers == {t \in Threads : tpc[t] = "insert"}

Readers == {t \in Threads : tpc[t] = "count"}

\* C33: under every interleaving of add_hideset and is_in_hideset calls on
\* one token, the hideset only grows; once add_hideset(S) has returned,
\* every is_in_hideset(n) with n in S that returns later returns true; a
\* writer is alone with the token, neither a second writer nor a reader
\* being inside; and a reader is let in whenever no writer is inside,
\* other readers or not.
C33_HidesetUnderThreads ==
    /\ [][heap[1].hideset \subseteq heap'[1].hideset]_vars
    /\ [][\A t \in Threads :
            (tpc[t] = "count" /\ tpc'[t] = "idle" /\ tjob[t].name \in returned)
            => tret'[t]]_vars
    /\ [](Cardinality(Writers) <= 1 /\ (Writers # {} => Readers = {}))
    /\ [](\A t \in Threads :
            (tpc[t] = "idle" /\ Writers = {}) => ENABLED ReadLock(t, "FOO"))

\* two threads are inside is_in_hideset at once, after an add_hideset of
\* both names has returned
C33_Witness ==
    /\ Cardinality(Readers) >= 2
    /\ returned = HideNames
    /\ heap[1].hideset = HideNames

\* the file the search path list `paths` gives for `filename`: the one in
\* the first directory, in order, that holds it; "" when none does
FirstInPaths(paths, filename) ==
    LET hits == {i \in 1..Len(paths) : exists(Join(paths[i], filename))}
    IN  IF hits = {} THEN ""
        ELSE canonical(Join(paths[CHOOSE i \in hits : \A j \in hits : i <= j], filename))

\* the last include_file call was for a relative filename and fell back to
\* the search path list, in which some directory holds the file
FellBack ==
    /\ lastInclude.called
    /\ ~is_absolute(lastInclude.filename)
    /\ ~(lastInclude.is_dquote /\ exists(Join(parent_path(CurrentFile), lastInclude.filename)))
    /\ FirstInPaths(lastInclude.paths, lastInclude.filename) # ""

\* C34: a lookup of a relative filename that falls back to the search path
\* returns the file in the first directory, in order, of the list configured
\* at the time of the lookup that holds the file, whatever lists were
\* configured and whatever lookups were made before.
C34_SearchUsesCurrentPaths ==
    FellBack => lastInclude.full_path = FirstInPaths(lastInclude.paths, lastInclude.filename)

\* what does hold: a filename looked up for the first time is resolved
\* against the list configured at the time, and a later lookup of it gives
\* what the first one gave
C34_FirstLookupUsesCurrentPaths ==
    [][\A f \in SearchNames :
         (f \notin DOMAIN cache /\ f \in DOMAIN cache')
         => /\ lastInclude'.filename = f
            /\ lastInclude'.full_path = FirstInPaths(include_paths_, f)
            /\ cache'[f] \in {Join(d, f) : d \in Range(include_paths_)}]_vars

(***************************************************************************)
(* Properties of the continuation the conditional handlers return.         *)
(***************************************************************************)
\* the first token after the line of the directive at the cursor: `# ifdef
\* NAME` and `# ifndef NAME` are three tokens long, `# else` two
BodyStart == IF tokens[cursor + 1].src = "else" THEN cursor + 2 ELSE cursor + 3

\* the handler at the cursor returns normally and goes on into its branch
IncludesBranch ==
    /\ ~err.raised
    /\ Runs({"ifdef", "ifndef", "else"})
    /\ ~err'.raised
    /\ EntersBranch(tokens[cursor + 1].src, stack, stack')

\* C35: when #ifdef NAME finds NAME defined, #ifndef NAME finds it
\* undefined, or #else comes with no earlier branch taken, the handler's
\* continuation is no later than the first token of the branch's body, so
\* every token of the body is reachable from it.
C35_IncludedBranchKept ==
    [][IncludesBranch => (cursor' # 0 /\ cursor' <= BodyStart)]_vars

\* what does hold: the continuation is the first `#` or EOF at or after
\* the start of the body, so a body that begins with a directive is kept
C35_ContinuationIsNextHash ==
    [][IncludesBranch
       => /\ cursor' # 0 /\ BodyStart <= cursor'
          /\ tokens[cursor'].kind \in {"TK_HASH", "TK_EOF"}
          /\ \A k \in BodyStart..(cursor' - 1) :
                tokens[k].kind \notin {"TK_HASH", "TK_EOF"}]_vars

\* the driver has nothing left to dispatch: it is at EOF or past the last
\* token, or a handler has raised
AtEnd == err.raised \/ cursor = 0 \/ Kind(cursor) = "TK_EOF"

\* C36: every handler other than #include that returns normally returns a
\* token strictly later in the stream than the directive-name token it was
\* given, or the end of the stream; so the driver that goes on from the
\* returned token comes to the end of every stream.
C36_HandlersMakeProgress ==
    /\ [][(~err.raised /\ Runs(Directives \ {"include"}) /\ ~err'.raised)
          => (cursor' = 0 \/ cursor' > cursor + 1)]_vars
    /\ (tokens # <<Eof>>) ~> AtEnd

\* the driver is at EOF of its stream with no error raised, the
\* last directive dispatched being the #endif of a block it went into
C36_Witness ==
    /\ ~err.raised
    /\ cursor # 0 /\ Kind(cursor) = "TK_EOF"
    /\ last.cmd = "endif"
    /\ entered # {}
    /\ "A" \in DOMAIN macros

(***************************************************************************)
(* Properties of LRUCache::erase, of the calls returning, and of the       *)
(* representation.                                                         *)
(***************************************************************************)
\* the nodes of a list without their addresses, and without those of key k
Pairs(list, k) ==
    LET others == SelectSeq(list, LAMBDA n : n.first # k)
    IN  [i \in DOMAIN others |-> <<others[i].first, others[i].second>>]

\* thread t runs the body of its erase call
ErasesBy(t) == pc[t] = "body" /\ cur[t].name = "erase" /\ pc'[t] = "done"

\* C37: erase(k) removes k when it is present and changes nothing when it
\* is absent; either way every other key stays in the map, at its node,
\* with its value, and the other keys keep their order in the list, so the
\* entry at the tail among them, the next to be evicted, is the same.
C37_EraseLeavesOthers ==
    [][\A t \in Threads : ErasesBy(t)
         => LET k == cur[t].key
            IN  /\ k \notin DOMAIN cache_map_'
                /\ \A i \in DOMAIN cache_list_' : cache_list_'[i].first # k
                /\ k \notin DOMAIN cache_map_
                   => (cache_list_' = cache_list_ /\ cache_map_' = cache_map_)
                /\ DOMAIN cache_map_' = (DOMAIN cache_map_) \ {k}
                /\ \A j \in DOMAIN cache_map_' :
                      /\ cache_map_'[j] = cache_map_[j]
                      /\ Deref(cache_list_', cache_map_'[j]) = Deref(cache_list_, cache_map_[j])
                /\ Pairs(cache_list_', k) = Pairs(cache_list_, k)
                /\ Len(cache_list_') = Len(Pairs(cache_list_, k))
                /\ cache_list_' # <<>>
                   => Victim(cache_list_').first
                        = Pairs(cache_list_, k)[Len(Pairs(cache_list_, k))][1]]_vars

\* an erase has removed the key at the head of a full cache of two entries
\* and the other entry is still there
C37_Witness ==
    \E t \in Threads :
        /\ pc[t] = "done" /\ cur[t].name = "erase" /\ it[t] # 0
        /\ max_size_ = 2
        /\ Len(cache_list_) = 1
        /\ cur[t].key \notin DOMAIN cache_map_
        /\ touched = <<cache_list_[1].first>>

\* every thread has made all its calls and is back from the last
WorkloadDone == \A t \in Threads : pc[t] = "idle" /\ job[t].i = MaxIterations

\* C38: under fair scheduling every put, get, erase, clear and size call
\* that a thread has issued returns, whichever path the call takes; no
\* thread that is back from its call holds the mutex; and the finite
\* workload of all the threads comes to its end with the mutex free.
C38_CallsReturn ==
    /\ \A t \in Threads : (pc[t] = "wait") ~> (pc[t] = "idle")
    /\ [](\A t \in Threads : pc[t] \in {"idle", "wait"} => mutex_ # t)
    /\ <>[](WorkloadDone /\ mutex_ = 0)

\* every thread is back from the last of its calls, the mutex is free and
\* the calls have left something in the cache
C38_Witness ==
    /\ WorkloadDone
    /\ mutex_ = 0
    /\ cache_list_ # <<>>

\* no thread is inside a call: what a caller can observe
BetweenOperations == mutex_ = 0 /\ \A t \in Threads : pc[t] \in {"idle", "wait"}

\* C39: between operations the keys of cache_map_ are the keys of the nodes
\* of cache_list_, no key is in two nodes of the list, and the iterator the
\* map holds for a key is that of the list node with that key.
C39_Representation ==
    BetweenOperations
    => /\ DOMAIN cache_map_ = {cache_list_[i].first : i \in DOMAIN cache_list_}
       /\ \A i, j \in DOMAIN cache_list_ :
             cache_list_[i].first = cache_list_[j].first => i = j
       /\ \A k \in DOMAIN cache_map_ :
             /\ cache_map_[k] \in NodeIds(cache_list_)
             /\ Deref(cache_list_, cache_map_[k]).first = k
       /\ \A i, j \in DOMAIN cache_list_ :
             cache_list_[i].id = cache_list_[j].id => i = j

\* two entries are cached, the one at the head in the node allocated
\* first: it was moved there by a later call
C39_Witness ==
    /\ BetweenOperations
    /\ Len(cache_list_) = 2
    /\ cache_list_[1].id < cache_list_[2].id
    /\ touched = <<cache_list_[2].first, cache_list_[1].first>>

====
